---------------------------- MODULE Spec2Model ----------------------------
(***************************************************************************)
(* Model of the cached cross-commit symbol resolver of SecVulEval          *)
(* (src/agents/symbol_backend.py, class SymbolBackend).                    *)
(*                                                                         *)
(* A repository is a set of commits; a commit is an ordered list of        *)
(* (path, blob) pairs; a blob is a list of source items, each of which     *)
(* stands for a few lines of C text (as token lines) and for the syntax    *)
(* nodes a C parser builds for them.  The search patterns of the backend   *)
(* are evaluated on the token lines, the node finders on the syntax nodes. *)
(***************************************************************************)
EXTENDS Integers, Sequences, FiniteSets, TLC

(***************************************************************************)
(* Bounds of the model.                                                    *)
(***************************************************************************)
\* lookups called in a sequential run
MaxLookups == 2

\* lookups called in a concurrent run and in a side-by-side run
MaxCalls == 3

\* lookups ended by a failing git call
MaxOutages == 1

\* largest lru_size
MaxLru == 2

(***************************************************************************)
(* Values.                                                                 *)
(***************************************************************************)
None == [none |-> TRUE]

REPO == "/repo"

_KINDS == {"function", "macro", "global", "typedef", "struct", "enum"}

Commits == {"c1", "c2"}

Resolvers == {"r1", "r2"}

\* the (repository, commit) a resolver is constructed with
CommitOf(r) == IF r = "r1" THEN "c1" ELSE "c2"

(***************************************************************************)
(* Source text.  A line is a record [ind, toks]: whether it starts with    *)
(* white space, and its tokens.  A word token is an identifier, keyword or *)
(* number, that is, a run of \w characters.                                *)
(***************************************************************************)
Punct == {"(", ")", "{", "}", ";", "=", "#", ",", "+", "[", "]", "*", "/*", "*/"}

IsWord(t) == t \notin Punct

Ln(ind, toks) == [ind |-> ind, toks |-> toks]

\* a syntax node of an item: type, identifier text, parent within the item
\* (0: the translation unit), first and last line relative to the item, and
\* how many tokens of its last line it covers (0: the whole line)
NdTo(type, text, rel, dl, el, ecol) ==
    [type |-> type, text |-> text, rel |-> rel, dl |-> dl, el |-> el,
     ecol |-> ecol]

Nd(type, text, rel, dl, el) == NdTo(type, text, rel, dl, el, 0)

It(form, name) == [form |-> form, name |-> name]

\* the text lines of an item
ItemLines(it) ==
    CASE it.form = "include" ->       \* #include <NAME>
           << Ln(FALSE, <<"#", "include", it.name>>) >>
      [] it.form = "fdef" ->          \* int NAME() { }
           << Ln(FALSE, <<"int", it.name, "(", ")", "{", "}">>) >>
      [] it.form = "proto" ->         \* int NAME();
           << Ln(FALSE, <<"int", it.name, "(", ")", ";">>) >>
      [] it.form = "fsplit" ->        \* int            (return type on its own line)
                                      \* NAME() { }
           << Ln(FALSE, <<"int">>),
              Ln(FALSE, <<it.name, "(", ")", "{", "}">>) >>
      [] it.form = "caller" ->        \* int main() {
                                      \*     x = NAME();
                                      \* }
           << Ln(FALSE, <<"int", "main", "(", ")", "{">>),
              Ln(TRUE,  <<"x", "=", it.name, "(", ")", ";">>),
              Ln(FALSE, <<"}">>) >>
      [] it.form = "define" ->        \* #define NAME 256
           << Ln(FALSE, <<"#", "define", it.name, "256">>) >>
      [] it.form = "cproto" ->        \* /*
                                      \*  * int NAME();
                                      \*  */
           << Ln(FALSE, <<"/*">>),
              Ln(TRUE,  <<"*", "int", it.name, "(", ")", ";">>),
              Ln(TRUE,  <<"*/">>) >>
      [] it.form = "typedef" ->       \* typedef int NAME;
           << Ln(FALSE, <<"typedef", "int", it.name, ";">>) >>
      [] it.form = "struct" ->        \* struct NAME {
                                      \*     int x;
                                      \* };
           << Ln(FALSE, <<"struct", it.name, "{">>),
              Ln(TRUE,  <<"int", "x", ";">>),
              Ln(FALSE, <<"}", ";">>) >>
      [] it.form = "enum1" ->         \* enum NAME { RED };
           << Ln(FALSE, <<"enum", it.name, "{", "RED", "}", ";">>) >>
      [] it.form = "global" ->        \* int NAME = 0;
           << Ln(FALSE, <<"int", it.name, "=", "0", ";">>) >>
      [] it.form = "wcomment" ->      \* /* NAME */
           << Ln(FALSE, <<"/*", it.name, "*/">>) >>
      [] it.form = "blank" ->         \* (an empty line)
           << Ln(FALSE, << >>) >>
      [] it.form = "tstruct" ->       \* typedef struct NAME {
                                      \*     int x;
                                      \* } pair_t;
           << Ln(FALSE, <<"typedef", "struct", it.name, "{">>),
              Ln(TRUE,  <<"int", "x", ";">>),
              Ln(FALSE, <<"}", "pair_t", ";">>) >>
      [] it.form = "fptr" ->          \* int *NAME() { }
           << Ln(FALSE, <<"int", "*", it.name, "(", ")", "{", "}">>) >>
      [] it.form = "local" ->         \* int run() {
                                      \*     int NAME = 0;
                                      \*     return NAME;
                                      \* }
           << Ln(FALSE, <<"int", "run", "(", ")", "{">>),
              Ln(TRUE,  <<"int", it.name, "=", "0", ";">>),
              Ln(TRUE,  <<"return", it.name, ";">>),
              Ln(FALSE, <<"}">>) >>
      [] OTHER -> << >>

\* the syntax nodes a C parser builds for an item, in document order
ItemNodes(it) ==
    CASE it.form = "include" ->
           << Nd("preproc_include", "", 0, 0, 0) >>
      [] it.form = "fdef" ->
           << Nd("function_definition", "", 0, 0, 0),
              Nd("primitive_type", "int", 1, 0, 0),
              Nd("function_declarator", "", 1, 0, 0),
              Nd("identifier", it.name, 3, 0, 0),
              Nd("parameter_list", "", 3, 0, 0),
              Nd("compound_statement", "", 1, 0, 0) >>
      [] it.form = "proto" ->
           << Nd("declaration", "", 0, 0, 0),
              Nd("primitive_type", "int", 1, 0, 0),
              Nd("function_declarator", "", 1, 0, 0),
              Nd("identifier", it.name, 3, 0, 0),
              Nd("parameter_list", "", 3, 0, 0) >>
      [] it.form = "fsplit" ->
           << Nd("function_definition", "", 0, 0, 1),
              Nd("primitive_type", "int", 1, 0, 0),
              Nd("function_declarator", "", 1, 1, 1),
              Nd("identifier", it.name, 3, 1, 1),
              Nd("parameter_list", "", 3, 1, 1),
              Nd("compound_statement", "", 1, 1, 1) >>
      [] it.form = "caller" ->
           << Nd("function_definition", "", 0, 0, 2),
              Nd("primitive_type", "int", 1, 0, 0),
              Nd("function_declarator", "", 1, 0, 0),
              Nd("identifier", "main", 3, 0, 0),
              Nd("parameter_list", "", 3, 0, 0),
              Nd("compound_statement", "", 1, 0, 2),
              Nd("expression_statement", "", 6, 1, 1),
              Nd("assignment_expression", "", 7, 1, 1),
              Nd("identifier", "x", 8, 1, 1),
              Nd("call_expression", "", 8, 1, 1),
              Nd("identifier", it.name, 10, 1, 1),
              Nd("argument_list", "", 10, 1, 1) >>
      [] it.form = "define" ->
           << Nd("preproc_def", "", 0, 0, 0),
              Nd("identifier", it.name, 1, 0, 0),
              Nd("preproc_arg", "256", 1, 0, 0) >>
      [] it.form = "cproto" ->
           << Nd("comment", "", 0, 0, 2) >>
      [] it.form = "typedef" ->
           << Nd("type_definition", "", 0, 0, 0),
              Nd("typedef", "", 1, 0, 0),
              Nd("primitive_type", "int", 1, 0, 0),
              Nd("type_identifier", it.name, 1, 0, 0),
              Nd(";", "", 1, 0, 0) >>
      [] it.form = "struct" ->        \* the closing ; is a node of its own,
                                      \* after the struct_specifier
           << NdTo("struct_specifier", "", 0, 0, 2, 1),
              Nd("struct", "", 1, 0, 0),
              Nd("type_identifier", it.name, 1, 0, 0),
              NdTo("field_declaration_list", "", 1, 0, 2, 1),
              Nd("{", "", 4, 0, 0),
              Nd("field_declaration", "", 4, 1, 1),
              Nd("primitive_type", "int", 6, 1, 1),
              Nd("field_identifier", "x", 6, 1, 1),
              Nd(";", "", 6, 1, 1),
              NdTo("}", "", 4, 2, 2, 1),
              Nd(";", "", 0, 2, 2) >>
      [] it.form = "enum1" ->
           << NdTo("enum_specifier", "", 0, 0, 0, 5),
              Nd("enum", "", 1, 0, 0),
              Nd("type_identifier", it.name, 1, 0, 0),
              NdTo("enumerator_list", "", 1, 0, 0, 5),
              Nd("{", "", 4, 0, 0),
              Nd("enumerator", "", 4, 0, 0),
              Nd("identifier", "RED", 6, 0, 0),
              Nd("}", "", 4, 0, 0),
              Nd(";", "", 0, 0, 0) >>
      [] it.form = "global" ->
           << Nd("declaration", "", 0, 0, 0),
              Nd("primitive_type", "int", 1, 0, 0),
              Nd("init_declarator", "", 1, 0, 0),
              Nd("identifier", it.name, 3, 0, 0),
              Nd("=", "", 3, 0, 0),
              Nd("number_literal", "0", 3, 0, 0),
              Nd(";", "", 1, 0, 0) >>
      [] it.form = "wcomment" ->
           << Nd("comment", "", 0, 0, 0) >>
      [] it.form = "tstruct" ->       \* the struct_specifier is the type of
                                      \* the type_definition
           << Nd("type_definition", "", 0, 0, 2),
              Nd("typedef", "", 1, 0, 0),
              NdTo("struct_specifier", "", 1, 0, 2, 1),
              Nd("struct", "", 3, 0, 0),
              Nd("type_identifier", it.name, 3, 0, 0),
              NdTo("field_declaration_list", "", 3, 0, 2, 1),
              Nd("{", "", 6, 0, 0),
              Nd("field_declaration", "", 6, 1, 1),
              Nd("primitive_type", "int", 8, 1, 1),
              Nd("field_identifier", "x", 8, 1, 1),
              Nd(";", "", 8, 1, 1),
              NdTo("}", "", 6, 2, 2, 1),
              Nd("type_identifier", "pair_t", 1, 2, 2),
              Nd(";", "", 1, 2, 2) >>
      [] it.form = "fptr" ->          \* the function_declarator is the
                                      \* declarator of the pointer_declarator
           << Nd("function_definition", "", 0, 0, 0),
              Nd("primitive_type", "int", 1, 0, 0),
              Nd("pointer_declarator", "", 1, 0, 0),
              Nd("*", "", 3, 0, 0),
              Nd("function_declarator", "", 3, 0, 0),
              Nd("identifier", it.name, 5, 0, 0),
              Nd("parameter_list", "", 5, 0, 0),
              Nd("compound_statement", "", 1, 0, 0) >>
      [] it.form = "local" ->
           << Nd("function_definition", "", 0, 0, 3),
              Nd("primitive_type", "int", 1, 0, 0),
              Nd("function_declarator", "", 1, 0, 0),
              Nd("identifier", "run", 3, 0, 0),
              Nd("parameter_list", "", 3, 0, 0),
              Nd("compound_statement", "", 1, 0, 3),
              Nd("declaration", "", 6, 1, 1),
              Nd("primitive_type", "int", 7, 1, 1),
              Nd("init_declarator", "", 7, 1, 1),
              Nd("identifier", it.name, 9, 1, 1),
              Nd("=", "", 9, 1, 1),
              Nd("number_literal", "0", 9, 1, 1),
              Nd(";", "", 7, 1, 1),
              Nd("return_statement", "", 6, 2, 2),
              Nd("return", "", 14, 2, 2),
              Nd("identifier", it.name, 14, 2, 2),
              Nd(";", "", 14, 2, 2) >>
      [] OTHER -> << >>

RECURSIVE SrcLines(_)
\* the text of a blob: the lines of its items, one after the other
SrcLines(items) ==
    IF items = << >> THEN << >>
    ELSE ItemLines(Head(items)) \o SrcLines(Tail(items))

\* the nodes `frag` of one item, placed after `base` nodes at line lineOff
Placed(frag, base, lineOff) ==
    [k \in 1..Len(frag) |->
        [type   |-> frag[k].type,
         text   |-> frag[k].text,
         start  |-> lineOff + frag[k].dl,
         end    |-> lineOff + frag[k].el,
         ecol   |-> frag[k].ecol,
         parent |-> IF frag[k].rel = 0 THEN 1 ELSE base + frag[k].rel]]

RECURSIVE BuildTree(_, _, _)
\* the nodes of the items after `acc`, with absolute lines and parents
BuildTree(items, lineOff, acc) ==
    IF items = << >> THEN acc
    ELSE BuildTree(Tail(items), lineOff + Len(ItemLines(Head(items))),
                   acc \o Placed(ItemNodes(Head(items)), Len(acc), lineOff))

\* the translation unit starts where its first child starts
Rooted(body) ==
    IF Len(body) > 1 THEN [body EXCEPT ![1].start = body[2].start] ELSE body

\* the syntax tree of a blob: node 1 is the translation unit
Parse(items) ==
    Rooted(BuildTree(items, 0,
               << [type |-> "translation_unit", text |-> "", start |-> 0,
                   end |-> Len(SrcLines(items)) - 1, ecol |-> 0,
                   parent |-> 0] >>))

(***************************************************************************)
(* The repository: blobs (file contents, named by their content hash) and  *)
(* the tree of each commit, in the order git lists paths.                  *)
(***************************************************************************)
Blobs == {"hdr", "hdr2", "math", "types", "first", "doc", "nest", "wide",
          "glob"}

\* a word of two characters that take three bytes each in UTF-8
CJK == "U+4E2D U+6587"

BlobItems(b) ==
    CASE b = "hdr"  -> << It("define", "MAX"), It("proto", "add") >>
      [] b = "hdr2" -> << It("define", "MAX"), It("define", "MIN"),
                          It("proto", "add") >>
      [] b = "math" -> << It("include", "a.h"), It("proto", "add"),
                          It("fdef", "add"), It("fsplit", "sub"),
                          It("caller", "log") >>
      [] b = "types" -> << It("typedef", "myint"), It("struct", "Point"),
                           It("enum1", "Color"), It("global", "counter") >>
      [] b = "first" -> << It("fdef", "top"), It("fdef", "low"),
                           It("cproto", "top") >>
      [] b = "doc"   -> << It("cproto", "foo"), It("fdef", "foo"),
                           It("fdef", "bar"), It("cproto", "bar") >>
      [] b = "nest"  -> << It("blank", ""), It("define", "LIM"),
                           It("tstruct", "Pair"), It("fptr", "dup"),
                           It("typedef", "word_t") >>
      [] b = "wide"  -> << It("wcomment", CJK), It("fdef", "uni"),
                           It("fdef", "oth") >>
      [] b = "glob"  -> << It("local", "total"), It("global", "total"),
                           It("global", "limit") >>

File(path, blob) == [path |-> path, blob |-> blob]

\* a world fixes what the two commits contain
Worlds == {"same", "renamed"}

CommitTree(w, c) ==
    IF c = "c1"
    THEN << File("a.h", "hdr"), File("d.c", "doc"), File("f.c", "first"),
            File("g.c", "glob"), File("m.c", "math"), File("p.h", "nest"),
            File("t.h", "types"), File("u.c", "wide") >>
    ELSE IF w = "same"
         THEN << File("a.h", "hdr2"), File("d.c", "doc"), File("f.c", "first"),
                 File("g.c", "glob"), File("m.c", "math"), File("p.h", "nest"),
                 File("t.h", "types"), File("u.c", "wide") >>
         ELSE << File("a.h", "hdr"), File("d.c", "doc"), File("f.c", "first"),
                 File("g.c", "glob"), File("n.c", "math"), File("p.h", "nest"),
                 File("t.h", "types"), File("u.c", "wide") >>

\* the blob at commit:path, or None
BlobAt(w, c, path) ==
    LET t == CommitTree(w, c)
        hits == {i \in 1..Len(t) : t[i].path = path}
    IN  IF hits = {} THEN None ELSE t[CHOOSE i \in hits : TRUE].blob

(***************************************************************************)
(* Pattern library and candidate locator.                                  *)
(***************************************************************************)
\* toks[1..i-1] is matched by [\w\*\s]+ (or [\w\s\*\[\]]+ with brackets):
\* every token a word or a star, and at least one character, which the
\* leading white space of the line can supply
TypeRun(line, i, brackets) ==
    /\ \A j \in 1..(i - 1) :
           \/ IsWord(line.toks[j])
           \/ line.toks[j] = "*"
           \/ brackets /\ line.toks[j] \in {"[", "]"}
    /\ (i > 1 \/ line.ind)

\* whether the kind's pattern for `name` matches the line
_grep_pattern(kind, name, line) ==
    LET t == line.toks
        n == Len(t)
    IN  CASE kind = "function" ->
               \E i \in 1..(n - 1) :
                   t[i] = name /\ t[i + 1] = "(" /\ TypeRun(line, i, FALSE)
          [] kind = "macro" ->
               n >= 3 /\ t[1] = "#" /\ t[2] = "define" /\ t[3] = name
          [] kind = "global" ->
               \E i \in 1..(n - 1) :
                   t[i] = name /\ t[i + 1] \in {"=", ";", "{"}
                   /\ TypeRun(line, i, TRUE)
          [] kind = "typedef" ->
               n >= 2 /\ t[1] = "typedef" /\ \E i \in 2..n : t[i] = name
          [] kind \in {"struct", "enum"} ->
               \/ n >= 2 /\ t[1] = kind /\ t[2] = name
               \/ n >= 3 /\ t[1] = "typedef" /\ t[2] = kind /\ t[3] = name
          [] OTHER -> \E i \in 1..n : t[i] = name

\* the 0-based lines of a blob the pattern matches, ascending
StrictLines(kind, name, b) ==
    LET src == SrcLines(BlobItems(b))
    IN  SelectSeq([i \in 1..Len(src) |-> i - 1],
                  LAMBDA l : _grep_pattern(kind, name, src[l + 1]))

\* whether the name occurs in the blob
Mentions(name, b) ==
    LET src == SrcLines(BlobItems(b))
    IN  \E i \in 1..Len(src) : \E j \in 1..Len(src[i].toks) : src[i].toks[j] = name

Cand(path, line) == [path |-> path, line |-> line]

RECURSIVE StrictHits(_, _, _)
StrictHits(tree, kind, name) ==
    IF tree = << >> THEN << >>
    ELSE LET f  == Head(tree)
             ls == StrictLines(kind, name, f.blob)
         IN  [i \in 1..Len(ls) |-> Cand(f.path, ls[i])]
             \o StrictHits(Tail(tree), kind, name)

RECURSIVE FallbackHits(_, _)
FallbackHits(tree, name) ==
    IF tree = << >> THEN << >>
    ELSE (IF Mentions(name, Head(tree).blob)
          THEN << Cand(Head(tree).path, 0) >> ELSE << >>)
         \o FallbackHits(Tail(tree), name)

\* mutant: the broad search runs as well when the strict search has hits
_grep_candidates_AlsoBroad(w, c, name, kind) ==
    StrictHits(CommitTree(w, c), kind, name)
        \o FallbackHits(CommitTree(w, c), name)

\* the candidates for (name, kind) at a commit
_grep_candidates(w, c, name, kind) ==
    LET results == StrictHits(CommitTree(w, c), kind, name)
    IN  IF results # << >> THEN results
        ELSE FallbackHits(CommitTree(w, c), name)

(***************************************************************************)
(* Symbol extraction.                                                      *)
(***************************************************************************)
Rec(code, file, line) == [code |-> code, file |-> file, line |-> line]

\* the absolute path of a file of the repository
AbsPath(path) == << REPO, path >>

\* the children of node n that start at or before `line`, in order
ChildrenUpTo(tree, n, line) ==
    SelectSeq([k \in 1..Len(tree) |-> k],
              LAMBDA k : tree[k].parent = n /\ tree[k].start <= line)

Children(tree, n) ==
    SelectSeq([k \in 1..Len(tree) |-> k], LAMBDA k : tree[k].parent = n)

RECURSIVE NodeSearch(_, _, _)
NodeSearch(tree, queue, line) ==
    IF queue = << >> THEN 0
    ELSE LET n == queue[Len(queue)]
         IN  IF tree[n].start = line THEN n
             ELSE NodeSearch(tree,
                      SubSeq(queue, 1, Len(queue) - 1)
                          \o ChildrenUpTo(tree, n, line),
                      line)

\* the node the search is seeded with (0: none)
_node_at_line(tree, line) == NodeSearch(tree, << 1 >>, line)

\* whether function_definition n has a function_declarator child with an
\* identifier child spelled `ident`
DeclaresFunction(tree, n, ident) ==
    /\ tree[n].type = "function_definition"
    /\ \E i \in 1..Len(Children(tree, n)) :
         LET child == Children(tree, n)[i]
         IN  /\ tree[child].type = "function_declarator"
             /\ \E j \in 1..Len(Children(tree, child)) :
                  LET leaf == Children(tree, child)[j]
                  IN  tree[leaf].type = "identifier" /\ tree[leaf].text = ident

RECURSIVE ClimbFunction(_, _, _)
ClimbFunction(tree, n, ident) ==
    IF n = 0 THEN 0
    ELSE IF DeclaresFunction(tree, n, ident) THEN n
    ELSE ClimbFunction(tree, tree[n].parent, ident)

_find_function(tree, ident, line_hint) ==
    ClimbFunction(tree, _node_at_line(tree, line_hint), ident)

\* whether struct_specifier or enum_specifier n (of type `type`) has
\* `ident` as its first type_identifier child
NamesType(tree, n, type, ident) ==
    /\ tree[n].type = type
    /\ LET ids == SelectSeq(Children(tree, n),
                            LAMBDA c : tree[c].type = "type_identifier")
       IN  ids # << >> /\ tree[ids[1]].text = ident

RECURSIVE ClimbType(_, _, _, _)
ClimbType(tree, n, type, ident) ==
    IF n = 0 THEN 0
    ELSE IF NamesType(tree, n, type, ident) THEN n
    ELSE ClimbType(tree, tree[n].parent, type, ident)

_find_struct(tree, ident, line_hint) ==
    ClimbType(tree, _node_at_line(tree, line_hint), "struct_specifier", ident)

_find_enum(tree, ident, line_hint) ==
    ClimbType(tree, _node_at_line(tree, line_hint), "enum_specifier", ident)

RECURSIVE Descendants(_, _)
\* the nodes below node n
Descendants(tree, n) ==
    LET kids == {k \in 1..Len(tree) : tree[k].parent = n}
    IN  kids \cup UNION {Descendants(tree, k) : k \in kids}

\* whether type_definition n has an init_declarator_list child one of whose
\* declarators holds an identifier spelled `ident`
DeclaresTypedef(tree, n, ident) ==
    /\ tree[n].type = "type_definition"
    /\ \E i \in 1..Len(Children(tree, n)) :
         LET decl_list == Children(tree, n)[i]
         IN  /\ tree[decl_list].type = "init_declarator_list"
             /\ \A j \in 1..(i - 1) :
                  tree[Children(tree, n)[j]].type # "init_declarator_list"
             /\ \E leaf \in Descendants(tree, decl_list) :
                  /\ tree[leaf].type \in {"type_identifier", "identifier"}
                  /\ tree[leaf].text = ident

RECURSIVE ClimbTypedef(_, _, _)
ClimbTypedef(tree, n, ident) ==
    IF n = 0 THEN 0
    ELSE IF DeclaresTypedef(tree, n, ident) THEN n
    ELSE ClimbTypedef(tree, tree[n].parent, ident)

_find_typedef(tree, ident, line_hint) ==
    ClimbTypedef(tree, _node_at_line(tree, line_hint), ident)

RECURSIVE Flat(_, _)
\* the tokens of lines i.. of a text, each with its line and column
Flat(src, i) ==
    IF i > Len(src) THEN << >>
    ELSE [k \in 1..Len(src[i].toks) |->
             [t |-> src[i].toks[k], ln |-> i, col |-> k]]
         \o Flat(src, i + 1)

\* the match of RGX_GLOBAL that starts at the start of line i, or << >>:
\* \s*[\w\s\*]+ runs over words, stars, blanks and line ends up to the
\* first other character, which must be one of = ; { and be preceded by a
\* word, the name, that is not the first character of the match
GlobalAt(src, i) ==
    LET flat  == Flat(src, i)
        stops == {q \in 1..Len(flat) : ~(IsWord(flat[q].t) \/ flat[q].t = "*")}
    IN  IF stops = {} THEN << >>
        ELSE LET q == CHOOSE x \in stops : \A y \in stops : x <= y
             IN  IF /\ flat[q].t \in {"=", ";", "{"}
                    /\ q > 1
                    /\ IsWord(flat[q - 1].t)
                    /\ (q > 2 \/ flat[1].ln > i \/ src[i].ind)
                 THEN << [name |-> flat[q - 1].t, first |-> i,
                          last |-> flat[q].ln, col |-> flat[q].col] >>
                 ELSE << >>

RECURSIVE GlobalMatches(_, _)
\* the matches from line i on, where m is the match at line i or << >>:
\* the scan goes on after the match, or at the next line
GlobalScan(src, i, m) ==
    IF m = << >> THEN GlobalMatches(src, i + 1)
    ELSE m \o GlobalMatches(src, m[1].last + 1)

\* RGX_GLOBAL.finditer(src): the matches from line i on, in order
GlobalMatches(src, i) ==
    IF i > Len(src) THEN << >> ELSE GlobalScan(src, i, GlobalAt(src, i))

\* the first of the matches ms whose name group is `name`, or << >>
FirstNamed(ms, name) ==
    LET hits == {k \in 1..Len(ms) : ms[k].name = name}
    IN  IF hits = {} THEN << >>
        ELSE << ms[CHOOSE k \in hits : \A j \in hits : k <= j] >>

\* the record of match m (<< >>: none): the text from the start of the
\* match to its last character
GlobalCode(path, src, m) ==
    IF m = << >> THEN None
    ELSE [code |-> SubSeq(src, m[1].first, m[1].last - 1)
                     \o << Ln(src[m[1].last].ind,
                              SubSeq(src[m[1].last].toks, 1, m[1].col)) >>,
          file |-> AbsPath(path),
          line |-> m[1].first - 1]

\* the record of the first match of RGX_GLOBAL whose name group is `name`
GlobalRec(path, src, name) ==
    GlobalCode(path, src, FirstNamed(GlobalMatches(src, 1), name))

IsBlank(line) == line.toks = << >>

\* the first match of ^\s*#\s*define\s+NAME\b[^\n]* : 1-based first and
\* last line of the match, or << >>.  \s* also runs over blank lines, so
\* the match starts at the first of the blank lines before the #define.
MacroSpan(src, name) ==
    LET defs == {j \in 1..Len(src) : _grep_pattern("macro", name, src[j])}
        starts == {i \in 1..Len(src) :
                     \E j \in defs : /\ i <= j
                                     /\ \A k \in i..(j - 1) : IsBlank(src[k])}
    IN  IF starts = {} THEN << >>
        ELSE LET i == CHOOSE x \in starts : \A y \in starts : x <= y
                 j == CHOOSE x \in defs : x >= i /\ \A y \in defs : y >= i => x <= y
             IN  << i, j >>

\* the record of the text span from line `start` to line `end` (1-based)
_build_rec(path, src, start, end) ==
    Rec(SubSeq(src, start, end), AbsPath(path), start - 1)

\* the characters of a token
CharLen(tok) ==
    CASE tok \in {"/*", "*/"} \cup {CJK} -> 2
      [] tok \in {"int", "add", "sub", "log", "top", "low", "foo", "bar", "MAX",
                  "MIN", "LIM", "RED", "256", "dup", "a.h", "uni", "oth"} -> 3
      [] tok \in {"main", "enum", "Pair"} -> 4
      [] tok \in {"Point", "Color", "myint"} -> 5
      [] tok \in {"define", "struct", "word_t", "pair_t"} -> 6
      [] tok \in {"include", "typedef", "counter"} -> 7
      [] OTHER -> 1

\* the bytes of a token in UTF-8: one per character outside CJK
ByteLen(tok) == IF tok = CJK THEN 6 ELSE CharLen(tok)

\* the blanks before token j of a line
Gap(line, j) ==
    IF j = 1 THEN (IF line.ind THEN 4 ELSE 0)
    ELSE IF \/ line.toks[j] \in {"(", ")", ";", ","}
            \/ line.toks[j - 1] \in {"(", "#"}
            \/ line.toks[j - 1] = "*" /\ IsWord(line.toks[j])
         THEN 0 ELSE 1

RECURSIVE TokEnd(_, _, _)
\* the offset within its line of the end of token j (0: the line start),
\* in bytes or in characters
TokEnd(line, j, bytes) ==
    IF j = 0 THEN 0
    ELSE TokEnd(line, j - 1, bytes) + Gap(line, j)
         + (IF bytes THEN ByteLen(line.toks[j]) ELSE CharLen(line.toks[j]))

RECURSIVE LineStart(_, _, _)
\* the offset of the start of line i (1-based; Len(src) + 1: the end of the
\* text): every line ends with a line feed
LineStart(src, i, bytes) ==
    IF i = 1 THEN 0
    ELSE LineStart(src, i - 1, bytes)
         + TokEnd(src[i - 1], Len(src[i - 1].toks), bytes) + 1

\* the offset of the end of token j of line i
Offset(src, i, j, bytes) == LineStart(src, i, bytes) + TokEnd(src[i], j, bytes)

\* the line of character offset a: the last line that starts at or before it
LineOf(src, a) ==
    CHOOSE i \in 1..(Len(src) + 1) :
        /\ LineStart(src, i, FALSE) <= a
        /\ \A k \in 1..(Len(src) + 1) :
               LineStart(src, k, FALSE) <= a => k <= i

\* the part of line i within the characters a .. b - 1: its tokens that lie
\* within, and whether blanks precede them
Piece(src, i, a, b) ==
    IF i > Len(src) THEN Ln(FALSE, << >>)
    ELSE Ln(/\ src[i].ind
            /\ a < LineStart(src, i, FALSE) + Gap(src[i], 1)
            /\ b > LineStart(src, i, FALSE),
            SelectSeq(
                [j \in 1..Len(src[i].toks) |->
                    IF /\ Offset(src, i, j, FALSE) - CharLen(src[i].toks[j]) >= a
                       /\ Offset(src, i, j, FALSE) <= b
                    THEN src[i].toks[j] ELSE ""],
                LAMBDA t : t # ""))

\* src[a:b] of the str src, as lines: the end is clipped to the text
Slice(src, a, b) ==
    [k \in 1..(LineOf(src, b) - LineOf(src, a) + 1) |->
        Piece(src, LineOf(src, a) + k - 1, a, b)]

Clip(src, b) ==
    IF b > LineStart(src, Len(src) + 1, FALSE)
    THEN LineStart(src, Len(src) + 1, FALSE) ELSE b

\* node.start_byte and node.end_byte of the tree parsed from src.encode()
StartByte(src, node) ==
    Offset(src, node.start + 1, 0, TRUE) + Gap(src[node.start + 1], 1)

EndByte(src, node) ==
    Offset(src, node.end + 1,
           IF node.ecol = 0 THEN Len(src[node.end + 1].toks) ELSE node.ecol,
           TRUE)

\* src[node.start_byte : node.end_byte]: the byte offsets of the node index
\* the characters of the str
NodeText(src, node) ==
    Slice(src, Clip(src, StartByte(src, node)), Clip(src, EndByte(src, node)))

\* the record of the macro match m (<< >>: none)
MacroRec(path, src, m) ==
    IF m # << >> THEN _build_rec(path, src, m[1], m[2]) ELSE None

\* the record of node `node` of the tree (0: none)
NodeRec(path, src, tree, node) ==
    IF node = 0 THEN None
    ELSE Rec(NodeText(src, tree[node]), AbsPath(path), tree[node].start)

\* the finder of a structural kind
Finder(tree, name, kind, line_hint) ==
    CASE kind = "function" -> _find_function(tree, name, line_hint)
      [] kind = "typedef"  -> _find_typedef(tree, name, line_hint)
      [] kind = "struct"   -> _find_struct(tree, name, line_hint)
      [] kind = "enum"     -> _find_enum(tree, name, line_hint)

\* the record for (name, kind) in the text src with syntax tree `tree`
ExtractFrom(src, tree, path, name, kind, line_hint) ==
    CASE kind = "macro" -> MacroRec(path, src, MacroSpan(src, name))
      [] kind = "global" -> GlobalRec(path, src, name)
      [] kind \in {"function", "typedef", "struct", "enum"} ->
           NodeRec(path, src, tree, Finder(tree, name, kind, line_hint))

\* the record for (name, kind) in a file with the given content, or None
_extract_symbol(b, path, name, kind, line_hint) ==
    ExtractFrom(SrcLines(BlobItems(b)), Parse(BlobItems(b)),
                path, name, kind, line_hint)

(***************************************************************************)
(* The searches and extractions of the model's repository, tabulated: the  *)
(* lookup steps read what git grep and the extractor return from here.     *)
(***************************************************************************)
\* what the model looks up
LookupArgs ==
    { << "add", "function" >>, << "sub", "function" >>, << "log", "function" >>,
      << "MAX", "macro" >>, << "add", "union" >> }

\* str.lower() on the spellings of kinds the model uses
Lower(kind) ==
    CASE kind = "Function" -> "function"
      [] kind = "MACRO"    -> "macro"
      [] kind = "TypeDef"  -> "typedef"
      [] kind = "Enum"     -> "enum"
      [] OTHER             -> kind

\* what the Context Agent fetches: (name, kind as the agent spells it)
AgentArgs ==
    { << "add", "function" >>, << "add", "Function" >>, << "MAX", "MACRO" >>,
      << "counter", "global" >>, << "myint", "TypeDef" >>,
      << "Point", "struct" >>, << "add", "struct" >>, << "Color", "Enum" >>,
      << "add", "union" >>, << "top", "function" >>, << "low", "function" >>,
      << "foo", "function" >>, << "bar", "function" >> }

\* what the LLM's replies ask the Context Agent for: (name, kind as the
\* reply spells it)
AskedArgs ==
    { << "add", "function" >>, << "MAX", "MACRO" >>, << "add", "struct" >>,
      << "counter", "global" >>, << "myint", "TypeDef" >>,
      << "Point", "struct" >>, << "low", "function" >>, << "LIM", "macro" >>,
      << "limit", "global" >>, << "nosuch", "function" >> }

\* what the lookups of the extraction cases look up
ExtractArgs ==
    { << "Point", "struct" >>, << "Pair", "struct" >>, << "myint", "typedef" >>,
      << "word_t", "typedef" >>,
      << "add", "function" >>, << "dup", "function" >>, << "top", "function" >>,
      << "uni", "function" >>,
      << "MAX", "macro" >>, << "LIM", "macro" >>,
      << "total", "global" >>, << "limit", "global" >> }

Supported ==
    {a \in LookupArgs \cup ExtractArgs
            \cup {<< x[1], Lower(x[2]) >> : x \in AgentArgs \cup AskedArgs} :
        a[2] \in _KINDS}

Paths == {"a.h", "d.c", "f.c", "g.c", "m.c", "n.c", "p.h", "t.h", "u.c"}

Hints == 0..7

GrepOutput ==
    [w \in Worlds, c \in Commits, a \in Supported |->
        _grep_candidates(w, c, a[1], a[2])]

Extracted ==
    [b \in Blobs, p \in Paths, a \in Supported, h \in Hints |->
        _extract_symbol(b, p, a[1], a[2], h)]

(***************************************************************************)
(* Cache tiers.  The warm tier is a table with primary key                  *)
(* (repo, sha, kind, name); the hot tier of a resolver is the memo of       *)
(* functools.lru_cache around _warm_get: a list of (key, value) entries,    *)
(* least recently used first, where the value is whatever _warm_get         *)
(* returned, a row or None.                                                 *)
(***************************************************************************)
Key(sha, kind, name) == << REPO, sha, kind, name >>

_warm_get(w, key) == IF key \in DOMAIN w THEN w[key] ELSE None

\* mutant: the row is not stored
_warm_put_Lost(w, key, rec) == w

\* mutant: the write drops the rows of all other keys
_warm_put_Truncating(w, key, rec) == (key :> rec)

_warm_put(w, key, rec) == (key :> rec) @@ w

Entry(key, val) == [key |-> key, val |-> val]

\* a capacity is << n >> for lru_size = n, or << >> for lru_size = None:
\* no bound
Unbounded == << >>

Capacity(n) == << n >>

\* mutant: only misses are memoised, a row read from the warm tier is not
HotInsert_RowsNotKept(hot, cap, key, val) ==
    IF val # None THEN hot
    ELSE IF cap = Unbounded THEN hot \o << Entry(key, val) >>
    ELSE IF cap[1] = 0 THEN hot
    ELSE (IF Len(hot) >= cap[1] THEN Tail(hot) ELSE hot) \o << Entry(key, val) >>

\* the hot tier after a miss on `key` that fetched `val`, at capacity `cap`
HotInsert(hot, cap, key, val) ==
    IF cap = Unbounded THEN hot \o << Entry(key, val) >>
    ELSE IF cap[1] = 0 THEN hot
    ELSE (IF Len(hot) >= cap[1] THEN Tail(hot) ELSE hot) \o << Entry(key, val) >>

\* mutant: a hit does not make the entry the most recently used
_hot_get_NoTouch(hot, cap, w, key) ==
    LET at == {i \in 1..Len(hot) : hot[i].key = key}
    IN  IF at # {}
        THEN [val  |-> hot[CHOOSE x \in at : TRUE].val,
              hot  |-> hot,
              warm |-> FALSE]
        ELSE [val  |-> _warm_get(w, key),
              hot  |-> HotInsert(hot, cap, key, _warm_get(w, key)),
              warm |-> TRUE]

\* mutant: the warm tier is queried on a hot hit too
_hot_get_WarmAlways(hot, cap, w, key) ==
    LET at == {i \in 1..Len(hot) : hot[i].key = key}
    IN  IF at # {}
        THEN LET i == CHOOSE x \in at : TRUE
             IN  [val  |-> _warm_get(w, key),
                  hot  |-> SelectSeq(hot, LAMBDA e : e.key # key) \o << hot[i] >>,
                  warm |-> TRUE]
        ELSE [val  |-> _warm_get(w, key),
              hot  |-> HotInsert(hot, cap, key, _warm_get(w, key)),
              warm |-> TRUE]

\* a read through the hot tier: the value, the hot tier afterwards, and
\* whether the warm tier was queried
_hot_get(hot, cap, w, key) ==
    LET at == {i \in 1..Len(hot) : hot[i].key = key}
    IN  IF at # {}
        THEN LET i == CHOOSE x \in at : TRUE
             IN  [val  |-> hot[i].val,
                  hot  |-> SelectSeq(hot, LAMBDA e : e.key # key) \o << hot[i] >>,
                  warm |-> FALSE]
        ELSE [val  |-> _warm_get(w, key),
              hot  |-> HotInsert(hot, cap, key, _warm_get(w, key)),
              warm |-> TRUE]

(***************************************************************************)
(* One lookup, as steps on the resolver's own state l and the warm tier w. *)
(* l.pc is where the lookup stands:                                        *)
(*   "idle"    no lookup yet                                               *)
(*   "next"    at the head of the candidate loop                           *)
(*   "fetch"   cache miss for candidate l.idx: bytes not yet fetched       *)
(*   "put"     extraction verified: record not yet written                 *)
(*   "clear"   record written: hot tier not yet cleared                    *)
(*   "done"    returned l.result (a record or None)                        *)
(*   "raised"  ended by an exception of an external call                   *)
(* env is [world, commit, cap, failAt]: the repository, the resolver's     *)
(* commit, its hot-tier capacity, and which of the lookup's git rev-parse  *)
(* and git cat-file calls fails (0: none; k: the k-th such call).          *)
(***************************************************************************)
NoStat == [grep |-> 0, revparse |-> 0, hot |-> 0, warmget |-> 0,
           catfile |-> 0, extract |-> 0, put |-> 0, clear |-> 0]

FreshResolver ==
    [pc |-> "idle", name |-> "", kind |-> "", cands |-> << >>, idx |-> 1,
     sha |-> "", rec |-> None, result |-> None,
     hot |-> << >>, memo |-> << >>,
     stat |-> NoStat, seen |-> << >>, cleared |-> FALSE, recall |-> FALSE,
     \* ghost: the keys read through the hot tier since it was last cleared
     uses |-> << >>]

Out(w, l) == [w |-> w, l |-> l]

Bump(stat, f) == [stat EXCEPT ![f] = @ + 1]

\* the reset of the resolver's per-lookup fields at the entry of _lookup
Entered(l, name, kind) ==
    [l EXCEPT !.name = name, !.kind = kind, !.idx = 1, !.sha = "",
              !.rec = None, !.result = None, !.stat = NoStat,
              !.seen = << >>, !.cleared = FALSE,
              \* ghost: the resolver's previous lookup extracted and wrote
              \* this very symbol, and the hot tier was cleared since
              !.recall = /\ l.pc = "done" /\ l.stat.put = 1 /\ l.cleared
                         /\ l.name = name /\ l.kind = kind]

\* mutant: the kind is checked only after the candidate search has run
_lookup_start_LateKindCheck(w, l, env, name, kind) ==
    IF kind \notin _KINDS
    THEN Out(w, [Entered(l, name, kind) EXCEPT
                     !.pc = "done", !.cands = << >>,
                     !.stat = Bump(NoStat, "grep")])
    ELSE Out(w, [Entered(l, name, kind) EXCEPT
                     !.pc = "next",
                     !.cands = GrepOutput[env.world, env.commit, << name, kind >>],
                     !.stat = Bump(NoStat, "grep")])

\* entry of _lookup: the kind check and the candidate search
_lookup_start(w, l, env, name, kind) ==
    LET l0 == Entered(l, name, kind)
    IN  IF kind \notin _KINDS
        THEN Out(w, [l0 EXCEPT !.pc = "done", !.cands = << >>])
        ELSE Out(w, [l0 EXCEPT !.pc = "next",
                               !.cands = GrepOutput[env.world, env.commit,
                                                   << name, kind >>],
                               !.stat = Bump(NoStat, "grep")])

\* the git calls of the lookup that can raise, so far
Calls(l) == l.stat.revparse + l.stat.catfile

\* mutant: the memo is keyed by the path alone and shared by the instances,
\* and the resolver of commit c1 addressed the path first
_blob_sha_KeyedByPath(memo, env, path, fails) ==
    LET c == IF \E i \in 1..Len(CommitTree(env.world, "c1")) :
                    CommitTree(env.world, "c1")[i].path = path
             THEN "c1" ELSE env.commit
    IN  [ok |-> TRUE, sha |-> BlobAt(env.world, c, path),
         memo |-> (path :> BlobAt(env.world, c, path)) @@ memo,
         called |-> FALSE]

\* _blob_sha with its per-instance memo: [ok, sha, memo, called]; `fails`:
\* the subprocess exits non-zero
_blob_sha(memo, env, path, fails) ==
    IF path \in DOMAIN memo
    THEN [ok |-> TRUE, sha |-> memo[path], memo |-> memo, called |-> FALSE]
    ELSE IF fails
    THEN [ok |-> FALSE, sha |-> "", memo |-> memo, called |-> TRUE]
    ELSE LET sha == BlobAt(env.world, env.commit, path)
         IN  [ok |-> TRUE, sha |-> sha, memo |-> (path :> sha) @@ memo,
              called |-> TRUE]

\* mutant: the text is read from the checked-out file, which holds other
\* bytes than the object of the hash
_git_show_WorkTree(sha, fails) ==
    IF fails THEN [ok |-> FALSE, blob |-> ""]
    ELSE [ok |-> TRUE, blob |-> IF sha = "hdr" THEN "math" ELSE sha]

\* _git_show: [ok, blob]; `fails`: the subprocess exits non-zero
_git_show(sha, fails) ==
    IF fails THEN [ok |-> FALSE, blob |-> ""]
    ELSE [ok |-> TRUE, blob |-> sha]

\* ghost: one tried candidate: its key, what the cache read gave, whether
\* that read queried the warm tier, and what the extraction gave
Seen(key, cached, warm, extracted) ==
    [key |-> key, cached |-> cached, warm |-> warm, extracted |-> extracted]

\* mutant: the bytes are fetched after a cache hit too
_lookup_read_FetchOnHit(w, l, key, g) ==
    Out(w, [l EXCEPT !.pc = "fetch",
                     !.hot = g.hot,
                     !.stat = Bump(IF g.warm THEN Bump(@, "warmget") ELSE @,
                                   "hot"),
                     !.uses = Append(@, key),
                     !.seen = Append(@, Seen(key, g.val, g.warm, "skip"))])

\* after the cache read of key gave g: a row is returned, a miss goes on
\* to the byte fetch
_lookup_read(w, l, key, g) ==
    Out(w, [l EXCEPT !.pc = IF g.val # None THEN "done" ELSE "fetch",
                     !.result = IF g.val # None THEN g.val ELSE @,
                     !.hot = g.hot,
                     !.stat = Bump(IF g.warm THEN Bump(@, "warmget") ELSE @,
                                   "hot"),
                     !.uses = Append(@, key),
                     !.seen = Append(@, Seen(key, g.val, g.warm, "skip"))])

\* the cache read of the candidate's key
_lookup_keyed(w, l, env, key) ==
    _lookup_read(w, l, key, _hot_get(l.hot, env.cap, w, key))

\* after _blob_sha gave h: an exception, or the cache read
_lookup_hashed(w, l, env, h) ==
    IF ~h.ok
    THEN Out(w, [l EXCEPT !.pc = "raised",
                          !.stat = IF h.called THEN Bump(@, "revparse") ELSE @])
    ELSE _lookup_keyed(w, [l EXCEPT !.memo = h.memo, !.sha = h.sha,
                                    !.stat = IF h.called
                                             THEN Bump(@, "revparse") ELSE @],
                       env, Key(h.sha, l.kind, l.name))

\* head of the loop: next candidate, its hash, the cache read
_lookup_next(w, l, env) ==
    IF l.idx > Len(l.cands)
    THEN Out(w, [l EXCEPT !.pc = "done", !.result = None])
    ELSE _lookup_hashed(w, l, env,
             _blob_sha(l.memo, env, l.cands[l.idx].path,
                       env.failAt = Calls(l) + 1))

\* mutant: a candidate without a match ends the lookup with None
_lookup_fetch_StopAtMiss(w, l, env) ==
    LET cand == l.cands[l.idx]
        src  == _git_show(l.sha, env.failAt = Calls(l) + 1)
        st1  == Bump(l.stat, "catfile")
    IN  IF ~src.ok
        THEN Out(w, [l EXCEPT !.pc = "raised", !.stat = st1])
        ELSE LET rec == Extracted[src.blob, cand.path, << l.name, l.kind >>,
                                  cand.line]
                 l1  == [l EXCEPT !.stat = Bump(st1, "extract"),
                                  !.seen[Len(l.seen)].extracted = rec]
             IN  IF rec # None
                 THEN Out(w, [l1 EXCEPT !.pc = "put", !.rec = rec])
                 ELSE Out(w, [l1 EXCEPT !.pc = "done", !.result = None])

\* mutant: a candidate without a match is tried again
_lookup_extracted_Again(w, l, rec) ==
    IF rec # None
    THEN Out(w, [l EXCEPT !.pc = "put", !.rec = rec,
                          !.stat = Bump(@, "extract"),
                          !.seen[Len(l.seen)].extracted = rec])
    ELSE Out(w, [l EXCEPT !.pc = "next",
                          !.stat = Bump(@, "extract"),
                          !.seen[Len(l.seen)].extracted = rec])

\* after the extraction gave rec: a verified definition goes on to the
\* write, anything else to the next candidate
_lookup_extracted(w, l, rec) ==
    IF rec # None
    THEN Out(w, [l EXCEPT !.pc = "put", !.rec = rec,
                          !.stat = Bump(@, "extract"),
                          !.seen[Len(l.seen)].extracted = rec])
    ELSE Out(w, [l EXCEPT !.pc = "next", !.idx = @ + 1,
                          !.stat = Bump(@, "extract"),
                          !.seen[Len(l.seen)].extracted = rec])

\* after _git_show gave src: extract at the candidate's path and line
_lookup_shown(w, l, src) ==
    IF ~src.ok
    THEN Out(w, [l EXCEPT !.pc = "raised"])
    ELSE _lookup_extracted(w, l,
             Extracted[src.blob, l.cands[l.idx].path, << l.name, l.kind >>,
                       l.cands[l.idx].line])

\* after a cache miss: fetch the bytes and extract
_lookup_fetch(w, l, env) ==
    _lookup_shown(w, [l EXCEPT !.stat = Bump(@, "catfile")],
                  _git_show(l.sha, env.failAt = Calls(l) + 1))

\* verified definition: write the row
_lookup_put(w, l, env) ==
    Out(_warm_put(w, Key(l.sha, l.kind, l.name), l.rec),
        [l EXCEPT !.pc = "clear", !.stat = Bump(l.stat, "put")])

\* after the write: clear the hot tier, return the record
_lookup_clear(w, l, env) ==
    Out(w, [l EXCEPT !.pc = "done", !.result = l.rec, !.hot = << >>,
                     !.uses = << >>,
                     !.stat = Bump(l.stat, "clear")])

Running(l) == l.pc \in {"next", "fetch", "put", "clear"}

\* one step of a running lookup
_lookup_step(w, l, env) ==
    CASE l.pc = "next"  -> _lookup_next(w, l, env)
      [] l.pc = "fetch" -> _lookup_fetch(w, l, env)
      [] l.pc = "put"   -> _lookup_put(w, l, env)
      [] l.pc = "clear" -> _lookup_clear(w, l, env)

RECURSIVE RunToEnd(_, _)
\* the loop of _lookup, from state o = [w, l] to its return or exception
RunToEnd(o, env) ==
    IF ~Running(o.l) THEN o
    ELSE RunToEnd(_lookup_step(o.w, o.l, env), env)

\* a whole call of _lookup
_lookup(w, l, env, name, kind) ==
    RunToEnd(_lookup_start(w, l, env, name, kind), env)

(***************************************************************************)
(* The public accessors, and the Context Agent's dispatch on the kind.     *)
(***************************************************************************)
\* mutant: the struct accessor looks up a function
get_struct_AsDef(w, l, env, name) == _lookup(w, l, env, name, "function")

get_def(w, l, env, name)     == _lookup(w, l, env, name, "function")

get_macro(w, l, env, name)   == _lookup(w, l, env, name, "macro")

get_global(w, l, env, name)  == _lookup(w, l, env, name, "global")

get_typedef(w, l, env, name) == _lookup(w, l, env, name, "typedef")

get_struct(w, l, env, name)  == _lookup(w, l, env, name, "struct")

get_enum(w, l, env, name)    == _lookup(w, l, env, name, "enum")

\* ContextAgent._fetch_symbol on a backend in state (w, l): the state after,
\* and the accessor called ("": none)
_fetch_symbol(w, l, env, name, kind) ==
    LET k == Lower(kind)
        Via(o, method) == [w |-> o.w, l |-> o.l, via |-> method]
    IN  CASE k = "function" -> Via(get_def(w, l, env, name), "get_def")
          [] k = "macro"    -> Via(get_macro(w, l, env, name), "get_macro")
          [] k = "global"   -> Via(get_global(w, l, env, name), "get_global")
          [] k = "typedef"  -> Via(get_typedef(w, l, env, name), "get_typedef")
          [] k = "struct"   -> Via(get_struct(w, l, env, name), "get_struct")
          [] k = "enum"     -> Via(get_enum(w, l, env, name), "get_enum")
          [] OTHER          -> [w |-> w, l |-> l, via |-> ""]

(***************************************************************************)
(* State.                                                                  *)
(***************************************************************************)
VARIABLES
    world,      \* which repository the run is about
    lruSize,    \* lru_size of the resolvers
    warm,       \* the shared warm tier
    loc,        \* loc[r]: resolver r's own state
    outages,    \* lookups ended by a failing git call so far
    clock,      \* lookups started so far
    returned,   \* every (commit, name, kind, result) ever returned
    last,       \* the resolver whose lookup was called last
    shadow,     \* the same run with unbounded hot tiers: [warm, loc]
    agent,      \* the Context Agent's last fetch
    context,    \* the call of the Context Agent
    detection,  \* the call of the Detection Agent
    validation  \* the call of the Validation Agent

\* the calls of the agents
calls == << context, detection, validation >>

vars == << world, lruSize, warm, loc, outages, clock, returned, last, shadow,
           agent, calls >>

Env(r, failAt) == [world |-> world, commit |-> CommitOf(r),
                   cap |-> Capacity(lruSize),
                   failAt |-> failAt]

\* the git calls of one lookup that may fail: none (0), or the k-th
FailPoints(r, name, kind) ==
    IF << name, kind >> \in Supported /\ outages < MaxOutages
    THEN 0..(2 * Len(GrepOutput[world, CommitOf(r), << name, kind >>]))
    ELSE {0}

Raised(l) == IF l.pc = "raised" THEN 1 ELSE 0

\* the agent before its first fetch
NoFetch == [r |-> "", name |-> "", kind |-> "", failAt |-> 0, via |-> "",
            ret |-> None]

\* an agent that has not been called

Init ==
    /\ world \in Worlds
    /\ lruSize \in 0..MaxLru
    /\ warm = << >>
    /\ loc = [r \in Resolvers |-> FreshResolver]
    /\ outages = 0
    /\ clock = 0
    /\ returned = {}
    /\ last = ""
    /\ shadow = [warm |-> << >>, loc |-> [r \in Resolvers |-> FreshResolver]]
    /\ agent = NoFetch
    /\ context = [pc |-> "idle"]
    /\ detection = [pc |-> "idle"]
    /\ validation = [pc |-> "idle"]

\* the key a finished lookup was answered from, or None
AnsweredKey(l) ==
    IF l.pc = "done" /\ l.result # None THEN l.seen[Len(l.seen)].key ELSE None

\* ghost bookkeeping: what resolver r returned, if o.l is the end of a lookup
Log(r, o) ==
    returned' = IF o.l.pc = "done"
                THEN returned \cup {[commit |-> CommitOf(r), name |-> o.l.name,
                                     kind |-> o.l.kind, result |-> o.l.result]}
                ELSE returned

\* a whole lookup by resolver r in which git call number failAt fails
LookupAt(r, name, kind, failAt, max) ==
    /\ clock < max
    /\ \A q \in Resolvers : ~Running(loc[q])
    /\ \E o \in {_lookup(warm, loc[r], Env(r, failAt), name, kind)} :
           /\ warm' = o.w
           /\ loc' = [loc EXCEPT ![r] = o.l]
           /\ outages' = outages + Raised(o.l)
           /\ Log(r, o)
    /\ clock' = clock + 1
    /\ last' = r
    /\ UNCHANGED << world, lruSize, agent, calls >>

\* a whole lookup by resolver r, no other lookup in progress
Lookup(r, name, kind) ==
    /\ \E failAt \in FailPoints(r, name, kind) :
           LookupAt(r, name, kind, failAt, MaxLookups)
    /\ UNCHANGED shadow

\* cache_clear() on the resolver's hot tier
ClearHot(r) ==
    /\ ~Running(loc[r])
    /\ ~loc[r].cleared
    /\ loc' = [loc EXCEPT ![r].hot = << >>, ![r].cleared = TRUE,
                           ![r].uses = << >>]
    /\ UNCHANGED << world, lruSize, warm, outages, clock, returned, last, shadow,
                    agent, calls >>

Next ==
    \/ \E r \in Resolvers : \E a \in LookupArgs : Lookup(r, a[1], a[2])
    \/ \E r \in Resolvers : ClearHot(r)

Spec == Init /\ [][Next]_vars

(***************************************************************************)
(* Concurrent lookups: the resolvers' lookups interleave step by step.     *)
(***************************************************************************)
\* what the concurrent lookups look up
ConcArgs == { << "add", "function" >>, << "MAX", "macro" >> }

Begin(r, name, kind) ==
    /\ clock < MaxCalls
    /\ ~Running(loc[r])
    /\ \E o \in {_lookup_start(warm, loc[r], Env(r, 0), name, kind)} :
           /\ warm' = o.w
           /\ loc' = [loc EXCEPT ![r] = o.l]
           /\ Log(r, o)
    /\ clock' = clock + 1
    /\ last' = r
    /\ UNCHANGED << world, lruSize, outages, shadow, agent, calls >>

\* one step of r's lookup; `fails`: the git call of this step, if any, fails
Step(r, fails) ==
    /\ Running(loc[r])
    /\ fails => outages < MaxOutages
    /\ \E o \in {_lookup_step(warm, loc[r],
                                Env(r, IF fails THEN Calls(loc[r]) + 1 ELSE 0))} :
           /\ warm' = o.w
           /\ loc' = [loc EXCEPT ![r] = o.l]
           /\ outages' = outages + Raised(o.l)
           /\ Log(r, o)
    /\ UNCHANGED << world, lruSize, clock, last, shadow, agent, calls >>

ConcNext ==
    \/ \E r \in Resolvers : \E a \in ConcArgs : Begin(r, a[1], a[2])
    \/ \E r \in Resolvers : \E fails \in BOOLEAN : Step(r, fails)

ConcSpec == Init /\ [][ConcNext]_vars
(***************************************************************************)
(* The same lookups, with the same failing git calls, run side by side on  *)
(* resolvers of capacity lruSize and on resolvers with unbounded hot tiers *)
(* over a warm tier of their own.                                          *)
(***************************************************************************)
\* a whole lookup by resolver r, run on both sides with the same failing call
LookupBoth(r, name, kind) ==
    /\ clock < MaxCalls
    /\ \E failAt \in FailPoints(r, name, kind) :
        /\ LookupAt(r, name, kind, failAt, MaxCalls)
        /\ \E o \in {_lookup(shadow.warm, shadow.loc[r],
                               [Env(r, failAt) EXCEPT !.cap = Unbounded],
                               name, kind)} :
               shadow' = [warm |-> o.w, loc |-> [shadow.loc EXCEPT ![r] = o.l]]

LruNext == \E r \in Resolvers : \E a \in LookupArgs : LookupBoth(r, a[1], a[2])

LruSpec == Init /\ [][LruNext]_vars

(***************************************************************************)
(* Properties.                                                             *)
(***************************************************************************)
Done(r) == loc[r].pc = "done"

\* C1: a lookup with a kind outside _KINDS returns None at once: no search,
\* no hash resolution, no byte fetch, no read or write of either cache
\* tier, and no exception.
C1_UnsupportedKind ==
    [][\A r \in Resolvers :
         (last' = r /\ clock' # clock /\ loc'[r].kind \notin _KINDS)
         => /\ loc'[r].pc = "done"
            /\ loc'[r].result = None
            /\ loc'[r].stat = NoStat
            /\ loc'[r].hot = loc[r].hot
            /\ loc'[r].memo = loc[r].memo
            /\ warm' = warm]_vars

C1_Witness ==
    \E r \in Resolvers :
        Done(r) /\ loc[r].kind \notin _KINDS /\ loc[r].name # "" /\ warm # << >>

\* C2: a lookup never ends by raising: a failing hash resolution or byte
\* fetch only fails the candidate.
C2_NeverRaises == \A r \in Resolvers : loc[r].pc # "raised"

\* what a tried candidate yielded: the cached row, else the extraction
Yield(s) == IF s.cached # None THEN s.cached ELSE s.extracted

\* C3: a lookup that returns has tried the candidates in the locator's
\* order, each tried candidate before the last yielded nothing (no cached
\* row, no match), and the result is the record of the first candidate
\* that yielded one; None is returned exactly when all candidates were
\* tried and none yielded a record.
C3_FirstYieldingCandidate ==
    \A r \in Resolvers :
        (Done(r) /\ loc[r].kind \in _KINDS) =>
        LET l == loc[r]
            n == Len(l.seen)
            cs == _grep_candidates(world, CommitOf(r), l.name, l.kind)
        IN  /\ l.cands = cs
            /\ n <= Len(cs)
            /\ \A i \in 1..n :
                 LET b == BlobAt(world, CommitOf(r), cs[i].path)
                 IN  /\ l.seen[i].key = Key(b, l.kind, l.name)
                     /\ l.seen[i].cached = None =>
                          l.seen[i].extracted =
                              _extract_symbol(b, cs[i].path, l.name, l.kind,
                                              cs[i].line)
                     /\ l.seen[i].cached # None => l.seen[i].extracted = "skip"
            /\ \A i \in 1..(n - 1) : Yield(l.seen[i]) = None
            /\ IF l.result = None
               THEN n = Len(cs) /\ (n > 0 => Yield(l.seen[n]) = None)
               ELSE n > 0 /\ Yield(l.seen[n]) = l.result

\* a false candidate followed by the true one
C3_Witness ==
    \E r \in Resolvers :
        /\ Done(r) /\ loc[r].result # None
        /\ Len(loc[r].seen) >= 2
        /\ loc[r].seen[1].extracted = None
        /\ loc[r].seen[Len(loc[r].seen)].extracted = loc[r].result

\* r looked a symbol up cold and wrote its row, then q, bound to the other
\* commit, looked the same symbol up and came to the same key; these are
\* the only two lookups of the run
SecondLookup(r, q) ==
    /\ r # q /\ clock = 2 /\ last = q
    /\ Done(r) /\ Done(q)
    /\ loc[q].name = loc[r].name /\ loc[q].kind = loc[r].kind
    /\ loc[r].stat.put = 1
    /\ \E i \in 1..Len(loc[q].seen) : loc[q].seen[i].key = AnsweredKey(loc[r])

\* C4 (as amended): when a lookup at one commit has extracted a symbol from
\* a file and a lookup of the same symbol at the other commit then comes to
\* a file with the same content, the second lookup returns the same record
\* as a cache hit on the file's key: it neither extracts from that file nor
\* writes a row.  Candidates tried before that file are extracted by each
\* lookup on its own.
C4_SecondLookupIsCacheHit ==
    \A r, q \in Resolvers :
        SecondLookup(r, q) =>
        LET n == Len(loc[q].seen)
            s == loc[q].seen[n]
        IN  /\ loc[q].result = loc[r].result
            /\ s.key = AnsweredKey(loc[r])
            /\ s.cached = loc[r].result
            /\ s.extracted = "skip"
            /\ \A i \in 1..(n - 1) : loc[q].seen[i].key # s.key
            /\ loc[q].stat.put = 0

\* C4 (as stated): ... and over both lookups exactly one extraction runs.
C4_ExactlyOneExtraction ==
    \A r, q \in Resolvers :
        SecondLookup(r, q) =>
            /\ loc[q].result = loc[r].result
            /\ loc[r].stat.extract + loc[q].stat.extract = 1

\* the second lookup went through a false candidate before the cache hit
C4_Witness ==
    \E r, q \in Resolvers :
        /\ SecondLookup(r, q)
        /\ loc[q].stat.extract >= 1
        /\ loc[q].result # None

\* C5: a row of the warm tier, once created, never changes.
C5_RowsNeverChange ==
    [][\A k \in DOMAIN warm : k \in DOMAIN warm' /\ warm'[k] = warm[k]]_vars

\* C6: all lookups of one (commit, name, kind) return the same record.
C6_RepeatedLookupsAgree ==
    \A x, y \in returned :
        (x.commit = y.commit /\ x.name = y.name /\ x.kind = y.kind)
        => x.result = y.result

\* resolver r has just returned from looking up again the symbol its
\* previous lookup extracted and wrote, the hot tier cleared in between
Relooked(r) ==
    /\ Done(r) /\ loc[r].recall
    /\ last = r /\ ~loc[r].cleared

\* whether the hot tier holds val under key
Holds(hot, key, val) == \E i \in 1..Len(hot) : hot[i] = Entry(key, val)

\* C7 (as amended): after a cold lookup has written the symbol's row,
\* clearing the hot tier and looking the symbol up again returns the row of
\* the warm tier: the defining file is neither fetched nor extracted and
\* nothing is written; with lru_size >= 1 the hot tier then holds the row
\* under its key.  Candidates before the defining file are fetched and
\* extracted again.
C7_WarmHitAfterClear ==
    \A r \in Resolvers :
        Relooked(r) =>
        LET l == loc[r]
            s == l.seen[Len(l.seen)]
        IN  /\ l.result # None
            /\ s.key \in DOMAIN warm
            /\ l.result = warm[s.key]
            /\ s.cached = l.result
            /\ s.extracted = "skip"
            /\ l.stat.warmget >= 1
            /\ l.stat.put = 0
            /\ lruSize >= 1 => Holds(l.hot, s.key, l.result)

\* C7 (as stated): ... without any byte fetch or extraction, and the hot
\* tier again holds the key's record.
C7_NoFetchNoExtraction ==
    \A r \in Resolvers :
        Relooked(r) =>
            /\ loc[r].result # None
            /\ loc[r].stat.catfile = 0
            /\ loc[r].stat.extract = 0
            /\ Holds(loc[r].hot, AnsweredKey(loc[r]), loc[r].result)

\* the relookup passed a false candidate and the hot tier holds the row
C7_Witness ==
    \E r \in Resolvers :
        /\ Relooked(r)
        /\ loc[r].stat.extract >= 1
        /\ lruSize >= 1
        /\ Holds(loc[r].hot, AnsweredKey(loc[r]), loc[r].result)

\* whether a file of the commit that mentions the name holds a function
\* definition of it
DefinedInFallbackFile(w, c, name) ==
    \E i \in 1..Len(CommitTree(w, c)) :
        LET b    == CommitTree(w, c)[i].blob
            tree == Parse(BlobItems(b))
        IN  /\ Mentions(name, b)
            /\ \E n \in 1..Len(tree) : DeclaresFunction(tree, n, name)

\* C8: a function lookup whose strict pattern matches nothing, while the
\* name occurs in some file, returns a record if a fallback file defines
\* the function and None if not.
C8_FallbackFindsDefinition ==
    \A r \in Resolvers :
        ( /\ Done(r) /\ loc[r].kind = "function"
          /\ StrictHits(CommitTree(world, CommitOf(r)), "function", loc[r].name)
                 = << >>
          /\ loc[r].cands # << >> )
        => ( loc[r].result # None
               <=> DefinedInFallbackFile(world, CommitOf(r), loc[r].name) )

\* C9: two lookups that both extracted and both wrote under one key, no
\* git call failing, returned the same record, and the row is that record.
C9_RacingWritersAgree ==
    \A r, q \in Resolvers :
        ( /\ r # q /\ outages = 0
          /\ Done(r) /\ Done(q)
          /\ loc[r].stat.put = 1 /\ loc[q].stat.put = 1
          /\ AnsweredKey(loc[r]) = AnsweredKey(loc[q]) )
        => /\ loc[r].result = loc[q].result
           /\ warm[AnsweredKey(loc[r])] = loc[r].result

\* C10: a lookup returns what the same lookup returns in the run with
\* unbounded hot tiers.
C10_SameAsUnbounded ==
    \A r \in Resolvers :
        (Done(r) /\ shadow.loc[r].pc = "done")
        => loc[r].result = shadow.loc[r].result

(***************************************************************************)
(* The hot tier on its own: reads of arbitrary keys through _hot_get and   *)
(* cache_clear(), on resolvers of every capacity.                          *)
(***************************************************************************)
\* reads through the hot tiers in one run
MaxReads == 4

\* the keys read
HotKeys == { Key("hdr", "function", "add"), Key("math", "function", "add"),
             Key("math", "function", "sub") }

\* self._hot_get(*key) on resolver r
HotRead(r, key) ==
    /\ Len(loc["r1"].uses) + Len(loc["r2"].uses) < MaxReads
    /\ \E g \in {_hot_get(loc[r].hot, Capacity(lruSize), warm, key)} :
           loc' = [loc EXCEPT ![r].hot = g.hot, ![r].uses = Append(@, key)]
    /\ UNCHANGED << world, lruSize, warm, outages, clock, returned, last, shadow,
                    agent, calls >>

HotNext ==
    \/ \E r \in Resolvers : \E key \in HotKeys : HotRead(r, key)
    \/ \E r \in Resolvers : ClearHot(r)

HotSpec == Init /\ [][HotNext]_vars

\* the keys of a list of reads, and the position of the last read of a key
KeysOf(uses) == {uses[i] : i \in 1..Len(uses)}

LastUse(uses, k) ==
    CHOOSE i \in 1..Len(uses) :
        uses[i] = k /\ \A j \in (i + 1)..Len(uses) : uses[j] # k

FirstUse(uses, k) ==
    CHOOSE i \in 1..Len(uses) : uses[i] = k /\ \A j \in 1..(i - 1) : uses[j] # k

\* C11: a hot tier never holds more than lru_size entries, holds a key at
\* most once, and holds exactly the keys read since the last clear that
\* fewer than lru_size other keys were read after: what is evicted is least
\* recently used.
C11_HotTierIsLru ==
    \A r \in Resolvers :
        LET hot  == loc[r].hot
            uses == loc[r].uses
        IN  /\ Len(hot) <= lruSize
            /\ \A i, j \in 1..Len(hot) : hot[i].key = hot[j].key => i = j
            /\ {hot[i].key : i \in 1..Len(hot)} =
                 {k \in KeysOf(uses) :
                    Cardinality({j \in KeysOf(uses) :
                                   LastUse(uses, j) > LastUse(uses, k)}) < lruSize}
            /\ \A i, j \in 1..Len(hot) :
                   i < j => LastUse(uses, hot[i].key) < LastUse(uses, hot[j].key)

\* a full hot tier has evicted a key that was first read after a key it
\* still holds
C11_Witness ==
    \E r \in Resolvers :
        LET hot  == loc[r].hot
            uses == loc[r].uses
        IN  /\ lruSize >= 1
            /\ Len(hot) = lruSize
            /\ \E k \in KeysOf(uses) :
                 /\ \A i \in 1..Len(hot) : hot[i].key # k
                 /\ \E i \in 1..Len(hot) :
                      FirstUse(uses, hot[i].key) < FirstUse(uses, k)

\* whether, at commit c, rec.file is a file that holds rec.code from line
\* rec.line on
DescribesCommit(rec, w, c) ==
    \E i \in 1..Len(CommitTree(w, c)) :
        LET f   == CommitTree(w, c)[i]
            src == SrcLines(BlobItems(f.blob))
        IN  /\ rec.file = AbsPath(f.path)
            /\ rec.line + Len(rec.code) <= Len(src)
            /\ SubSeq(src, rec.line + 1, rec.line + Len(rec.code)) = rec.code

\* C12: every record a resolver returns names a file of the resolver's own
\* commit that holds the record's code at the record's line.
C12_RecordDescribesOwnCommit ==
    \A r \in Resolvers :
        (Done(r) /\ loc[r].result # None)
        => DescribesCommit(loc[r].result, world, CommitOf(r))

\* C13: a lookup, found or not, leaves the repository and the other
\* resolvers as they are: it changes only the warm tier and the calling
\* resolver's own state; and every text it extracts from is the object
\* named by the content hash of the candidate's key.
C13_RepositoryUntouched ==
    [][/\ world' = world
       /\ lruSize' = lruSize
       /\ clock' # clock =>
            /\ \A q \in Resolvers : q # last' => loc'[q] = loc[q]
            /\ LET l == loc'[last']
               IN  \A i \in 1..Len(l.seen) :
                     ( /\ l.seen[i].cached = None
                       /\ ~(i = Len(l.seen) /\ l.pc = "raised") ) =>
                       /\ l.seen[i].key[2] \in Blobs
                       /\ l.seen[i].extracted =
                            _extract_symbol(l.seen[i].key[2], l.cands[i].path,
                                            l.name, l.kind, l.cands[i].line)]_vars

\* both a lookup that found a record and one that found none have returned
C13_Witness ==
    /\ \E x \in returned : x.kind \in _KINDS /\ x.result = None
    /\ \E x \in returned : x.result # None
    /\ \E r \in Resolvers : loc[r].stat.catfile >= 2

(***************************************************************************)
(* The Context Agent fetching symbols through the resolvers.               *)
(***************************************************************************)
\* self._fetch_symbol(name, kind) on the agent whose backend is resolver r
Fetch(r, name, kind) ==
    /\ clock < MaxLookups
    /\ \A q \in Resolvers : ~Running(loc[q])
    /\ \E failAt \in FailPoints(r, name, Lower(kind)) :
       \E o \in {_fetch_symbol(warm, loc[r], Env(r, failAt), name, kind)} :
           /\ warm' = o.w
           /\ loc' = [loc EXCEPT ![r] = o.l]
           /\ outages' = IF o.via = "" THEN outages ELSE outages + Raised(o.l)
           /\ IF o.via = "" THEN returned' = returned ELSE Log(r, o)
           /\ agent' = [r |-> r, name |-> name, kind |-> kind,
                        failAt |-> failAt, via |-> o.via,
                        ret |-> IF o.via # "" /\ o.l.pc = "done"
                                THEN o.l.result ELSE None]
    /\ clock' = clock + 1
    /\ last' = r
    /\ UNCHANGED << world, lruSize, shadow, calls >>

AgentNext == \E r \in Resolvers : \E a \in AgentArgs : Fetch(r, a[1], a[2])

AgentSpec == Init /\ [][AgentNext]_vars

\* the spellings of a supported kind, and the accessor that serves it
Spellings(k) ==
    CASE k = "function" -> {"function", "Function"}
      [] k = "macro"    -> {"macro", "MACRO"}
      [] k = "typedef"  -> {"typedef", "TypeDef"}
      [] k = "enum"     -> {"enum", "Enum"}
      [] OTHER          -> {k}

AccessorOf(k) ==
    CASE k = "function" -> "get_def"
      [] k = "macro"    -> "get_macro"
      [] k = "global"   -> "get_global"
      [] k = "typedef"  -> "get_typedef"
      [] k = "struct"   -> "get_struct"
      [] k = "enum"     -> "get_enum"

\* C14: a fetch of (name, kind) whose kind spells a supported kind, in any
\* letter case, calls the accessor of that kind and nothing else, and the
\* accessor does exactly what _lookup(name, kind) does and returns what it
\* returns; a fetch of any other kind returns None without calling the
\* resolver.
C14_AccessorsAreLookup ==
    [][clock' # clock =>
         LET a  == agent'
             ks == {k \in _KINDS : a.kind \in Spellings(k)}
         IN  IF ks # {}
             THEN LET k == CHOOSE x \in ks : TRUE
                      o == _lookup(warm, loc[a.r], Env(a.r, a.failAt), a.name, k)
                  IN  /\ a.via = AccessorOf(k)
                      /\ warm' = o.w
                      /\ loc' = [loc EXCEPT ![a.r] = o.l]
                      /\ o.l.pc = "done" => a.ret = o.l.result
             ELSE /\ a.via = ""
                  /\ a.ret = None
                  /\ warm' = warm
                  /\ loc' = loc]_vars

\* a kind spelled in capitals was served by its accessor with a record
C14_Witness ==
    /\ agent.kind = "MACRO"
    /\ agent.via = "get_macro"
    /\ agent.ret # None
    /\ agent.ret = loc[agent.r].result

\* the one-line definition  int NAME() { }
OneLiner(name) == Ln(FALSE, << "int", name, "(", ")", "{", "}" >>)

\* C15: a function lookup of a name that a file of the commit defines on
\* one line returns that line as the code and its 0-based number as the
\* line, wherever in the file the line is.
C15_OneLineDefinition ==
    \A r \in Resolvers :
        (Done(r) /\ loc[r].kind = "function") =>
        \A i \in 1..Len(CommitTree(world, CommitOf(r))) :
            LET f   == CommitTree(world, CommitOf(r))[i]
                src == SrcLines(BlobItems(f.blob))
            IN  \A n \in 1..Len(src) :
                    src[n] = OneLiner(loc[r].name) =>
                        loc[r].result = Rec(<< src[n] >>, AbsPath(f.path), n - 1)

\* whether line `line` (0-based) of the blob lies in a comment
InComment(b, line) ==
    LET tree == Parse(BlobItems(b))
    IN  \E n \in 1..Len(tree) :
            tree[n].type = "comment" /\ tree[n].start <= line /\ line <= tree[n].end

\* C16: in a function lookup, a candidate whose hint line lies in a comment
\* yields no record from extraction, and if some candidate lies in a comment
\* while a file of the commit holds the one-line definition, the lookup
\* returns that definition.
C16_CommentNeverWins ==
    \A r \in Resolvers :
        (Done(r) /\ loc[r].kind = "function") =>
        LET l    == loc[r]
            tree == CommitTree(world, CommitOf(r))
            Hinted(i) == InComment(BlobAt(world, CommitOf(r), l.cands[i].path),
                                   l.cands[i].line)
        IN  /\ \A i \in 1..Len(l.seen) :
                 (Hinted(i) /\ l.seen[i].cached = None)
                 => l.seen[i].extracted = None
            /\ (\E i \in 1..Len(l.cands) : Hinted(i)) =>
                 \A j \in 1..Len(tree) :
                   LET src == SrcLines(BlobItems(tree[j].blob))
                   IN  \A n \in 1..Len(src) :
                         src[n] = OneLiner(l.name) =>
                           l.result = Rec(<< src[n] >>, AbsPath(tree[j].path), n - 1)

\* resolver r's lookup returns in this step after writing a row
ReturnsWritten(r) ==
    /\ loc'[r].pc = "done"
    /\ loc'[r].stat.clear = 1
    /\ \/ loc[r].pc = "clear"
       \/ clock' # clock /\ last' = r

\* C17: the row is written before the hot tier is cleared, and when a
\* lookup that extracted returns, the warm tier holds the returned record
\* under the key and the hot tier is empty, so the next read of the key
\* gives the row.
C17_WriteThenClear ==
    [][\A r \in Resolvers :
         LET key == Key(loc'[r].sha, loc'[r].kind, loc'[r].name)
         IN  /\ loc'[r].pc = "clear" => key \in DOMAIN warm'
             /\ ReturnsWritten(r) =>
                  /\ loc'[r].stat.put = 1
                  /\ key \in DOMAIN warm'
                  /\ warm'[key] = loc'[r].result
                  /\ loc'[r].hot = << >>
                  /\ _hot_get(loc'[r].hot, Capacity(lruSize), warm', key).val
                         = loc'[r].result]_vars

\* the keys a hot tier holds
HotKeysOf(hot) == {hot[i].key : i \in 1..Len(hot)}

\* the lookup that ended in l was answered by a row read from the warm tier
WarmHit(l) ==
    /\ l.pc = "done" /\ l.seen # << >>
    /\ l.seen[Len(l.seen)].warm
    /\ l.seen[Len(l.seen)].cached # None

\* this step is a lookup by r that repeats r's lookup just before it, which
\* was answered by a warm hit
RepeatsWarmHit(r) ==
    /\ WarmHit(loc[r]) /\ last = r
    /\ clock' # clock /\ last' = r
    /\ loc'[r].name = loc[r].name /\ loc'[r].kind = loc[r].kind

\* C18 (as amended): a cache read queries the warm tier only when the hot
\* tier does not hold the key; after a warm hit a hot tier of capacity at
\* least 1 holds the key's record when the lookup returns; and when the
\* capacity is at least the number of keys the lookup read, the same lookup
\* repeated at once queries the warm tier not at all and returns the same
\* record.
C18_HotTierFirst ==
    [][\A r \in Resolvers :
         (clock' # clock /\ last' = r) =>
         LET l == loc[r]
             n == loc'[r]
             S == n.seen
         IN  /\ \A i \in 1..Len(S) :
                  /\ i = 1 => (S[i].warm <=> S[i].key \notin HotKeysOf(l.hot))
                  /\ ~S[i].warm =>
                       S[i].key \in HotKeysOf(l.hot)
                                    \cup {S[j].key : j \in 1..(i - 1)}
             /\ (WarmHit(n) /\ lruSize >= 1) =>
                  /\ n.result = S[Len(S)].cached
                  /\ Holds(n.hot, S[Len(S)].key, n.result)
             /\ (/\ RepeatsWarmHit(r)
                 /\ Cardinality({l.seen[i].key : i \in 1..Len(l.seen)}) <= lruSize)
                => /\ n.stat.warmget = 0
                   /\ n.pc = "done" => n.result = l.result]_vars

\* C18 (as stated): after a warm hit the hot tier holds the key's record,
\* and the repeated lookup is served without a warm-tier query.
C18_AnyCapacity ==
    [][\A r \in Resolvers :
         (clock' # clock /\ last' = r) =>
         LET l == loc[r]
             n == loc'[r]
         IN  /\ WarmHit(n) => Holds(n.hot, n.seen[Len(n.seen)].key, n.result)
             /\ RepeatsWarmHit(r) => n.stat.warmget = 0]_vars

\* a third lookup answered by the hot tier alone, past a false candidate:
\* the record got there by the warm hit of the lookup before
C18_Witness ==
    \E r \in Resolvers :
        /\ Done(r) /\ last = r /\ clock = 3
        /\ loc[r].result # None
        /\ loc[r].stat.warmget = 0
        /\ loc[r].stat.hot = 2
        /\ loc[r].stat.put = 0

\* C19: every entry of a resolver's hot tier, a record or a miss, equals
\* what the warm tier holds for the entry's key, except between the
\* resolver's own write and the clear that follows it.
C19_HotAgreesWithWarm ==
    \A r \in Resolvers :
        loc[r].pc # "clear" =>
        \A i \in 1..Len(loc[r].hot) :
            loc[r].hot[i].val = _warm_get(warm, loc[r].hot[i].key)

\* this step is a whole lookup by r that returned NOT_FOUND or a cached row
EndsWithoutRecord(r) ==
    /\ clock' # clock /\ last' = r
    /\ loc'[r].pc = "done"
    /\ \/ loc'[r].result = None
       \/ loc'[r].seen[Len(loc'[r].seen)].cached # None

\* C20: a lookup that returns NOT_FOUND or a cached row leaves the warm
\* tier as it was; the warm tier changes only by the write of a record that
\* the extraction of the lookup's current candidate has just verified, under
\* that candidate's key; and no key of the warm tier is ever lost.
C20_WarmOnlyGrows ==
    [][/\ DOMAIN warm \subseteq DOMAIN warm'
       /\ \A r \in Resolvers : EndsWithoutRecord(r) => warm' = warm
       /\ warm' # warm =>
            \E r \in Resolvers :
                LET n == loc'[r]
                    s == n.seen[Len(n.seen)]
                IN  /\ n # loc[r]
                    /\ n.stat.put = 1
                    /\ n.rec # None
                    /\ s.cached = None
                    /\ s.extracted = n.rec
                    /\ n.rec = Extracted[s.key[2], n.cands[n.idx].path,
                                         << n.name, n.kind >>, n.cands[n.idx].line]
                    /\ warm' = (s.key :> n.rec) @@ warm]_vars

\* a lookup has just returned NOT_FOUND after extracting, or a cached row,
\* while the warm tier holds rows
C20_Witness ==
    /\ warm # << >>
    /\ \E r \in Resolvers :
           /\ Done(r) /\ last = r /\ loc[r].stat.put = 0
           /\ \/ loc[r].result = None /\ loc[r].stat.extract >= 1
              \/ loc[r].result # None

\* the moves of a lookup's position: a call starts the search (or returns
\* at once for an unsupported kind), the loop head reads the cache, a miss
\* goes on to fetch and extract, a verified record to the write and the
\* clear; "raised" is the lookup abandoned by an exception
Moves ==
    { << "idle", "next" >>, << "idle", "done" >>,
      << "done", "next" >>, << "done", "done" >>,
      << "raised", "next" >>, << "raised", "done" >>,
      << "next", "fetch" >>, << "next", "done" >>, << "next", "raised" >>,
      << "fetch", "next" >>, << "fetch", "put" >>, << "fetch", "raised" >>,
      << "put", "clear" >>, << "clear", "done" >> }

\* C21: within a lookup the steps of a candidate come in the order hash,
\* cache read, byte fetch, extraction, cache write: bytes are fetched and
\* extracted only after a cache miss for that candidate, a row is written
\* only after a successful extraction, a cache hit ends the lookup at once
\* with no fetch, extraction or write, and a lookup that has ended takes no
\* further step.
C21_StepOrder ==
    [][\A r \in Resolvers :
         LET l == loc[r]
             n == loc'[r]
             called == clock' # clock /\ last' = r
             top == l.seen[Len(l.seen)]
         IN  n # l =>
             /\ << l.pc, n.pc >> \in Moves
             /\ ~Running(l) <=> called
             /\ (called /\ n.kind \in _KINDS) =>
                  /\ n.pc = "next" /\ n.idx = 1 /\ n.seen = << >>
                  /\ n.stat = Bump(NoStat, "grep")
             /\ ~called =>
                  /\ n.cands = l.cands /\ n.stat.grep = l.stat.grep
                  /\ n.stat.hot # l.stat.hot =>
                       /\ l.pc = "next"
                       /\ n.sha = BlobAt(world, CommitOf(r), l.cands[l.idx].path)
                       /\ n.seen = Append(l.seen, n.seen[Len(n.seen)])
                       /\ n.seen[Len(n.seen)].key = Key(n.sha, l.kind, l.name)
                       /\ n.stat.catfile = l.stat.catfile
                       /\ n.stat.extract = l.stat.extract
                       /\ n.stat.put = l.stat.put
                       /\ n.seen[Len(n.seen)].cached # None =>
                            /\ n.pc = "done"
                            /\ n.result = n.seen[Len(n.seen)].cached
                            /\ n.stat.catfile = 0 \/ Len(n.seen) > 1
                       /\ n.seen[Len(n.seen)].cached = None => n.pc = "fetch"
                  /\ n.stat.catfile # l.stat.catfile =>
                       /\ l.pc = "fetch"
                       /\ Len(l.seen) = l.stat.hot
                       /\ top.key = Key(l.sha, l.kind, l.name)
                       /\ top.cached = None
                       /\ top.extracted = "skip"
                  /\ n.stat.extract # l.stat.extract =>
                       /\ n.stat.catfile = l.stat.catfile + 1
                       /\ n.pc = "put" <=> n.seen[Len(n.seen)].extracted # None
                  /\ n.stat.put # l.stat.put =>
                       /\ l.pc = "put"
                       /\ l.rec # None /\ l.rec = top.extracted
                       /\ l.stat.extract >= 1
                       /\ warm' = (top.key :> l.rec) @@ warm
                  /\ warm' # warm => n.stat.put # l.stat.put
                  /\ n.pc = "done" =>
                       \/ l.pc = "clear" /\ n.result = l.rec
                       \/ l.pc = "next" /\ n.stat.hot # l.stat.hot
                       \/ l.pc = "next" /\ l.idx > Len(l.cands)
                                        /\ n.result = None]_vars

\* one lookup has ended with a write after a false candidate, another with a
\* cache hit after a false candidate
C21_Witness ==
    \E r, q \in Resolvers :
        /\ Done(r) /\ loc[r].stat.put = 1 /\ Len(loc[r].seen) >= 2
        /\ Done(q) /\ loc[q].stat.put = 0 /\ loc[q].result # None
        /\ loc[q].stat.extract >= 1

(***************************************************************************)
(* Interleaved lookups in which every git call returns, each running       *)
(* lookup being scheduled again and again: a called function goes on       *)
(* executing.                                                              *)
(***************************************************************************)
\* what these lookups look up
TermArgs == { << "MAX", "macro" >>, << "top", "function" >> }

TermNext ==
    \/ \E r \in Resolvers : \E a \in TermArgs : Begin(r, a[1], a[2])
    \/ \E r \in Resolvers : Step(r, FALSE)

TermSpec ==
    /\ Init
    /\ [][TermNext]_vars
    /\ \A r \in Resolvers : WF_vars(Step(r, FALSE))

\* the candidates of r's lookup so far were tried once each, in order
TriedInOrder(r) ==
    LET l == loc[r]
    IN  /\ Len(l.seen) <= Len(l.cands)
        /\ l.idx \in 1..(Len(l.cands) + 1)
        /\ Len(l.seen) \in {l.idx - 1, l.idx}
        /\ \A i \in 1..Len(l.seen) :
             l.seen[i].key = Key(BlobAt(world, CommitOf(r), l.cands[i].path),
                                 l.kind, l.name)
        /\ l.stat.grep <= 1
        /\ l.stat.hot = Len(l.seen)
        /\ l.stat.revparse <= Len(l.seen)
        /\ l.stat.catfile <= Len(l.seen)
        /\ l.stat.extract <= l.stat.catfile
        /\ (l.pc = "done" /\ l.result = None /\ l.kind \in _KINDS) =>
             /\ l.idx = Len(l.cands) + 1
             /\ Len(l.seen) = Len(l.cands)
             /\ \A i \in 1..Len(l.seen) : Yield(l.seen[i]) = None

\* C22: when every git call returns, every lookup ends; its candidate list
\* is computed once, the candidates are tried once each and in order, the
\* lookup returns NOT_FOUND after the last one has failed, and the hash,
\* fetch and extraction steps number at most the candidates.
C22_LookupTerminates ==
    /\ [](\A r \in Resolvers : TriedInOrder(r))
    /\ [][\A r \in Resolvers :
            (Running(loc[r]) /\ loc'[r] # loc[r]) =>
                /\ loc'[r].cands = loc[r].cands
                /\ loc'[r].idx \in {loc[r].idx, loc[r].idx + 1}]_vars
    /\ \A r \in Resolvers : Running(loc[r]) ~> Done(r)

\* a lookup has returned NOT_FOUND after trying two candidates
C22_Witness ==
    \E r \in Resolvers :
        /\ Done(r) /\ loc[r].result = None
        /\ Len(loc[r].cands) >= 2
        /\ loc[r].stat.extract = Len(loc[r].cands)

(***************************************************************************)
(* The candidate search against the output of the search tool.             *)
(***************************************************************************)
RECURSIVE ToolLines(_, _, _)
\* what `git grep -nP` prints for the kind's pattern over the files `tree`
\* of a commit: the files in the tool's order, the matching lines of each
\* in file order, numbered from 1
ToolLines(tree, kind, name) ==
    IF tree = << >> THEN << >>
    ELSE SelectSeq([n \in 1..Len(SrcLines(BlobItems(Head(tree).blob))) |->
                       [path |-> Head(tree).path, blob |-> Head(tree).blob,
                        n |-> n]],
                   LAMBDA h : _grep_pattern(kind, name,
                                  SrcLines(BlobItems(h.blob))[h.n]))
         \o ToolLines(Tail(tree), kind, name)

\* the candidates are the tool's hits, or, when it has none, files that
\* hold the name, with line 0
FromTool(cands, hits, tree, name) ==
    IF hits # << >>
    THEN /\ Len(cands) = Len(hits)
         /\ \A i \in 1..Len(hits) :
              cands[i] = Cand(hits[i].path, hits[i].n - 1)
    ELSE \A i \in 1..Len(cands) :
              /\ cands[i].line = 0
              /\ \E j \in 1..Len(tree) :
                   /\ tree[j].path = cands[i].path
                   /\ Mentions(name, tree[j].blob)

Searched(r) == loc[r].pc # "idle" /\ loc[r].kind \in _KINDS

HitsOf(r) ==
    ToolLines(CommitTree(world, CommitOf(r)), loc[r].kind, loc[r].name)

\* C23: the candidates of a lookup are exactly the strict search's hits, in
\* the tool's order, each with the tool's line number minus 1, whenever the
\* strict search has a hit, also when every one of them fails verification;
\* the broad search runs only when the strict search has no hit, and its
\* candidates carry line 0.
C23_FallbackOnlyOnZeroHits ==
    \A r \in Resolvers :
        Searched(r) =>
            FromTool(loc[r].cands, HitsOf(r),
                     CommitTree(world, CommitOf(r)), loc[r].name)

\* one lookup has returned None after its two strict hits failed, and one
\* lookup got its candidates from the broad search
C23_Witness ==
    \E r, q \in Resolvers :
        /\ Done(r) /\ Searched(r) /\ loc[r].result = None
        /\ Len(HitsOf(r)) >= 2
        /\ loc[r].stat.extract = Len(loc[r].cands)
        /\ Searched(q) /\ HitsOf(q) = << >> /\ loc[q].cands # << >>

RECURSIVE NamedByDeclarator(_, _, _)
\* whether declarator d declares a function called `name`: d, or the
\* declarator nested in it, is a function_declarator whose identifier is
\* `name`
NamedByDeclarator(tree, d, name) ==
    \E c \in 1..Len(tree) :
        /\ tree[c].parent = d
        /\ \/ /\ tree[d].type = "function_declarator"
              /\ tree[c].type = "identifier"
              /\ tree[c].text = name
           \/ /\ tree[c].type \in {"pointer_declarator", "function_declarator"}
              /\ NamedByDeclarator(tree, c, name)

\* whether node n is a function definition of `name`
FunctionNamed(tree, n, name) ==
    /\ tree[n].type = "function_definition"
    /\ \E d \in 1..Len(tree) :
         /\ tree[d].parent = n
         /\ tree[d].type \in {"pointer_declarator", "function_declarator"}
         /\ NamedByDeclarator(tree, d, name)

\* whether node n is a type definition that declares `name`: the name is a
\* type_identifier child that follows the child for the type
TypedefNamed(tree, n, name) ==
    /\ tree[n].type = "type_definition"
    /\ \E c \in 1..Len(tree) :
         /\ tree[c].parent = n
         /\ tree[c].type = "type_identifier"
         /\ tree[c].text = name
         /\ \E t \in 1..(c - 1) :
              tree[t].parent = n /\ tree[t].type # "typedef"

\* whether node n of the tree is a definition of (kind, name)
DefinesAt(tree, n, kind, name) ==
    CASE kind = "function" -> FunctionNamed(tree, n, name)
      [] kind = "struct"   -> NamesType(tree, n, "struct_specifier", name)
      [] kind = "enum"     -> NamesType(tree, n, "enum_specifier", name)
      [] kind = "typedef"  -> TypedefNamed(tree, n, name)
      [] OTHER -> FALSE

\* whether the blob holds a definition of (kind, name) anywhere
DefinedIn(b, kind, name) ==
    \E n \in 1..Len(Parse(BlobItems(b))) :
        DefinesAt(Parse(BlobItems(b)), n, kind, name)

\* the i-th candidate of r's returned lookup missed the cache and was
\* extracted with hint 0 for a structural kind
ScannedWhole(r, i) ==
    /\ loc[r].kind \in {"function", "typedef", "struct", "enum"}
    /\ i <= Len(loc[r].seen)
    /\ loc[r].cands[i].line = 0
    /\ Done(r)
    /\ loc[r].seen[i].cached = None

\* C24: an extraction with line hint 0 finds the definition of the kind and
\* name wherever it is in the file.
C24_HintZeroScansWholeFile ==
    \A r \in Resolvers : \A i \in 1..Len(loc[r].cands) :
        ( /\ ScannedWhole(r, i)
          /\ DefinedIn(BlobAt(world, CommitOf(r), loc[r].cands[i].path),
                       loc[r].kind, loc[r].name) )
        => loc[r].seen[i].extracted # None

(***************************************************************************)
(* Lookups of the extraction cases: whole lookups, one at a time.          *)
(***************************************************************************)
ExtractNext ==
    \E r \in Resolvers : \E a \in ExtractArgs : Lookup(r, a[1], a[2])

ExtractSpec == Init /\ [][ExtractNext]_vars

\* the i-th candidate of r's returned lookup missed the cache and was
\* extracted with a line hint for a structural kind
Seeded(r, i) ==
    /\ loc[r].kind \in {"function", "typedef", "struct", "enum"}
    /\ Done(r)
    /\ i <= Len(loc[r].seen)
    /\ loc[r].seen[i].cached = None
    /\ loc[r].cands[i].line > 0

\* the syntax tree of the file of the i-th candidate of r's lookup
TreeOf(r, i) ==
    Parse(BlobItems(BlobAt(world, CommitOf(r), loc[r].cands[i].path)))

\* a definition of (kind, name) starts on the line, inside a node that
\* starts on the same line
NestedDefiner(tree, kind, name, line) ==
    \E n \in 1..Len(tree) :
        /\ DefinesAt(tree, n, kind, name)
        /\ tree[n].start = line
        /\ tree[n].parent # 0
        /\ tree[tree[n].parent].start = line

\* C25: the seed for a line hint is the innermost node that starts on the
\* hint line: a definition that starts on the hint line inside another node
\* starting there is on the seed's ancestor-or-self chain, so it is found;
\* when no node starts on the hint line the candidate fails.
C25_SeedIsInnermost ==
    \A r \in Resolvers : \A i \in 1..Len(loc[r].cands) :
        Seeded(r, i) =>
            /\ NestedDefiner(TreeOf(r, i), loc[r].kind, loc[r].name,
                             loc[r].cands[i].line)
                  => loc[r].seen[i].extracted # None
            /\ (\A n \in 1..Len(TreeOf(r, i)) :
                    TreeOf(r, i)[n].start # loc[r].cands[i].line)
                  => loc[r].seen[i].extracted = None

RECURSIVE NearestDefiner(_, _, _, _)
\* the nearest ancestor-or-self of node n that defines (kind, name), or 0
NearestDefiner(tree, n, kind, name) ==
    IF n = 0 THEN 0
    ELSE IF DefinesAt(tree, n, kind, name) THEN n
    ELSE NearestDefiner(tree, tree[n].parent, kind, name)

\* the i-th candidate of r's returned lookup missed the cache and was
\* extracted for a structural kind
Climbed(r, i) ==
    /\ loc[r].kind \in {"function", "typedef", "struct", "enum"}
    /\ Done(r)
    /\ i <= Len(loc[r].seen)
    /\ loc[r].seen[i].cached = None

\* the record of the nearest definition of (kind, name) above the seed of
\* the i-th candidate of r's lookup, or None
NearestRec(r, i, tree) ==
    NodeRec(loc[r].cands[i].path,
            SrcLines(BlobItems(BlobAt(world, CommitOf(r), loc[r].cands[i].path))),
            tree,
            NearestDefiner(tree, _node_at_line(tree, loc[r].cands[i].line),
                           loc[r].kind, loc[r].name))

\* C26: the extraction returns the nearest ancestor-or-self of the seed
\* whose type is the kind's defining type and whose name is the target
\* name: no node off the chain, no node of another name, and always the
\* same node for the same file, name, kind and hint.
C26_NearestNamedAncestor ==
    \A r \in Resolvers : \A i \in 1..Len(loc[r].cands) :
        Climbed(r, i) =>
            loc[r].seen[i].extracted = NearestRec(r, i, TreeOf(r, i))

\* the source text the node covers: its lines, the last one up to the
\* node's last token
NodeLines(src, node) ==
    IF node.ecol = 0 THEN SubSeq(src, node.start + 1, node.end + 1)
    ELSE SubSeq(src, node.start + 1, node.end)
         \o << Ln(src[node.end + 1].ind,
                  SubSeq(src[node.end + 1].toks, 1, node.ecol)) >>

\* the node matched for the i-th candidate of r's lookup (0: none)
Matched(r, i) ==
    Finder(TreeOf(r, i), loc[r].name, loc[r].kind, loc[r].cands[i].line)

\* the record of the text that node n of the tree covers
CoveredRec(path, b, n) ==
    Rec(NodeLines(SrcLines(BlobItems(b)), Parse(BlobItems(b))[n]),
        AbsPath(path), Parse(BlobItems(b))[n].start)

\* C27: the record of a structural match holds exactly the text the matched
\* node covers and the node's start line, also in a file with characters
\* of more than one byte before or inside the node.
C27_CodeIsNodeText ==
    \A r \in Resolvers : \A i \in 1..Len(loc[r].cands) :
        (Climbed(r, i) /\ Matched(r, i) # 0) =>
            loc[r].seen[i].extracted =
                CoveredRec(loc[r].cands[i].path,
                           BlobAt(world, CommitOf(r), loc[r].cands[i].path),
                           Matched(r, i))

\* the nearest definition of r's (kind, name) at or above the seed of the
\* i-th candidate (0: none)
OnChain(r, i, tree) ==
    NearestDefiner(tree, _node_at_line(tree, loc[r].cands[i].line),
                   loc[r].kind, loc[r].name)

\* C28: a function lookup accepts a function definition on the seed's chain
\* exactly when its declarator names the function, however deep the
\* function declarator lies in it (under a pointer declarator for a
\* function returning a pointer).
C28_AnyDeclaratorNesting ==
    \A r \in Resolvers : \A i \in 1..Len(loc[r].cands) :
        (Climbed(r, i) /\ loc[r].kind = "function") =>
            (loc[r].seen[i].extracted # None <=> OnChain(r, i, TreeOf(r, i)) # 0)

\* C29: a typedef lookup accepts a type definition on the seed's chain
\* exactly when it declares the name, so the lookup of a name whose
\* `typedef ... NAME;` line the typedef pattern shortlists returns that
\* statement.
C29_TypedefByDeclaredName ==
    \A r \in Resolvers : \A i \in 1..Len(loc[r].cands) :
        (Climbed(r, i) /\ loc[r].kind = "typedef") =>
            /\ loc[r].seen[i].extracted # None <=> OnChain(r, i, TreeOf(r, i)) # 0
            /\ OnChain(r, i, TreeOf(r, i)) # 0 =>
                 loc[r].result =
                     CoveredRec(loc[r].cands[i].path,
                                BlobAt(world, CommitOf(r), loc[r].cands[i].path),
                                OnChain(r, i, TreeOf(r, i)))

\* the 1-based numbers of the lines of the blob that are `#define NAME`
DefineLines(b, name) ==
    {j \in 1..Len(SrcLines(BlobItems(b))) :
        _grep_pattern("macro", name, SrcLines(BlobItems(b))[j])}

\* the record of the first `#define NAME` line of the blob, trimmed, or
\* None
FirstDefine(path, b, name) ==
    IF DefineLines(b, name) = {} THEN None
    ELSE Rec(<< Ln(FALSE,
                   SrcLines(BlobItems(b))[
                       CHOOSE j \in DefineLines(b, name) :
                           \A k \in DefineLines(b, name) : j <= k].toks) >>,
             AbsPath(path),
             (CHOOSE j \in DefineLines(b, name) :
                  \A k \in DefineLines(b, name) : j <= k) - 1)

\* C30: a macro extraction gives the first `#define NAME` line of the file,
\* whatever the hint: the code is that line alone, trimmed, and the line is
\* its 0-based number, also when blank lines precede it.
C30_MacroIsTheDefineLine ==
    \A r \in Resolvers : \A i \in 1..Len(loc[r].cands) :
        ( /\ Done(r) /\ loc[r].kind = "macro"
          /\ i <= Len(loc[r].seen)
          /\ loc[r].seen[i].cached = None )
        => loc[r].seen[i].extracted =
               FirstDefine(loc[r].cands[i].path,
                           BlobAt(world, CommitOf(r), loc[r].cands[i].path),
                           loc[r].name)

\* whether node n is a declaration at file level that declares the variable
\* `name`, with or without an initialiser
DeclaresGlobal(tree, n, name) ==
    /\ tree[n].type = "declaration"
    /\ tree[n].parent = 1
    /\ \E d \in 1..Len(tree) :
         /\ tree[d].type = "identifier"
         /\ tree[d].text = name
         /\ \/ tree[d].parent = n
            \/ /\ tree[d].parent # 0
               /\ tree[tree[d].parent].type = "init_declarator"
               /\ tree[tree[d].parent].parent = n

\* the 0-based lines where a file-level declaration of `name` starts
GlobalLines(tree, name) ==
    {tree[n].start : n \in {k \in 1..Len(tree) : DeclaresGlobal(tree, k, name)}}

\* the i-th candidate of r's returned lookup of a global missed the cache
\* and was extracted
GlobalTried(r, i) ==
    /\ loc[r].kind = "global"
    /\ Done(r)
    /\ i <= Len(loc[r].seen)
    /\ loc[r].seen[i].cached = None

\* C31: the extraction of a global gives the first file-level declaration
\* of exactly that identifier: the record starts on the line of that
\* declaration, never on a line inside a function body, and there is no
\* record when the file has no such declaration.
C31_GlobalIsTopLevel ==
    \A r \in Resolvers : \A i \in 1..Len(loc[r].cands) :
        GlobalTried(r, i) =>
            IF GlobalLines(TreeOf(r, i), loc[r].name) = {}
            THEN loc[r].seen[i].extracted = None
            ELSE /\ loc[r].seen[i].extracted # None
                 /\ loc[r].seen[i].extracted.line \in
                        GlobalLines(TreeOf(r, i), loc[r].name)
                 /\ \A l \in GlobalLines(TreeOf(r, i), loc[r].name) :
                        loc[r].seen[i].extracted.line <= l

\* the content hashes of the files of r's own (repository, commit)
OwnHashes(r) ==
    {CommitTree(world, CommitOf(r))[i].blob :
        i \in 1..Len(CommitTree(world, CommitOf(r)))}

\* C32: resolvers of one process do not hand each other cached state: every
\* memoised content hash of a resolver is the hash of the path at its own
\* (repository, commit), every cache key it reads carries the hash of the
\* candidate's path at its own commit, and its hot tier holds only keys it
\* read itself since the tier was cleared, also when another resolver bound
\* to another commit addressed the same path earlier.
C32_InstancesShareNothing ==
    \A r \in Resolvers :
        /\ \A p \in DOMAIN loc[r].memo :
               loc[r].memo[p] = BlobAt(world, CommitOf(r), p)
        /\ \A i \in 1..Len(loc[r].seen) :
               loc[r].seen[i].key =
                   Key(BlobAt(world, CommitOf(r), loc[r].cands[i].path),
                       loc[r].kind, loc[r].name)
        /\ \A i \in 1..Len(loc[r].hot) :
               /\ loc[r].hot[i].key[2] \in OwnHashes(r)
               /\ \E j \in 1..Len(loc[r].uses) :
                      loc[r].uses[j] = loc[r].hot[i].key

\* both resolvers have resolved a.h, whose content differs between their
\* commits, the second after the first, and each holds its own hash
C32_Witness ==
    /\ world = "same"
    /\ last = "r2"
    /\ \A r \in Resolvers : Done(r) /\ "a.h" \in DOMAIN loc[r].memo
    /\ loc["r1"].memo["a.h"] = "hdr"
    /\ loc["r2"].memo["a.h"] = "hdr2"
    /\ loc["r2"].result # None
    /\ loc["r2"].seen[1].cached = None

(***************************************************************************)
(* The replies of the LLM.  A reply is a text: JSON on its own ("bare"),   *)
(* JSON in a ```json fence ("fenced"), JSON in a fence without a language  *)
(* ("plainfence"), prose with one ``` in it ("halffence"), or prose.  The  *)
(* agents take the JSON text out of the reply and load it.                 *)
(***************************************************************************)
Text(form, value) == [form |-> form, value |-> value]

\* a Python str, or None
Str(json, value) == [isNone |-> FALSE, json |-> json, value |-> value]

NoStr == [isNone |-> TRUE, json |-> FALSE, value |-> << >>]

\* utils.get_wrapped_code: the text between ```lang and the last ```, or
\* None; with lang "" the text after the first ``` of a ```json fence
\* starts with the word json
get_wrapped_code(full_text, lang) ==
    IF lang = "json"
    THEN IF full_text.form = "fenced" THEN Str(TRUE, full_text.value) ELSE NoStr
    ELSE CASE full_text.form = "fenced"     -> Str(FALSE, full_text.value)
           [] full_text.form = "plainfence" -> Str(TRUE, full_text.value)
           [] OTHER                         -> NoStr

\* the json_string the agents load
JsonString(raw) ==
    IF raw.form \notin {"fenced", "plainfence", "halffence"}
    THEN Str(raw.form = "bare", raw.value)
    ELSE IF ~get_wrapped_code(raw, "json").isNone
         THEN get_wrapped_code(raw, "json")
         ELSE get_wrapped_code(raw, "")

\* json.loads: the value, or the exception it raises
json_loads(s) ==
    [error |-> IF s.isNone THEN "TypeError"
               ELSE IF ~s.json THEN "JSONDecodeError" ELSE "",
     value |-> s.value]

(***************************************************************************)
(* The Context Agent: one call of ContextAgent.__call__ on a resolver.     *)
(***************************************************************************)
\* largest loop_limit of a call
MaxLoopLimit == 2

\* what the LLM replies to the Context Agent.  The JSON values are an
\* object with need_more ("true", "false", or "absent") and new_symbols, and
\* an array; the items of new_symbols are an object with name and kind, an
\* object without kind, an object whose kind is null, and a string
ContextReplies ==
    LET Sym(name, kind) ==
            [dict |-> TRUE, keys |-> {"name", "kind"}, name |-> name,
             kind |-> kind, str |-> TRUE]
        SymNoKind(name) ==
            [dict |-> TRUE, keys |-> {"name"}, name |-> name, kind |-> "",
             str |-> TRUE]
        SymNullKind(name) ==
            [dict |-> TRUE, keys |-> {"name", "kind"}, name |-> name,
             kind |-> "", str |-> FALSE]
        SymString ==
            [dict |-> FALSE, keys |-> {}, name |-> "", kind |-> "", str |-> TRUE]
        Answer(need_more, new_symbols) ==
            [object |-> TRUE, need_more |-> need_more,
             new_symbols |-> new_symbols]
        Array == [object |-> FALSE, need_more |-> "absent", new_symbols |-> << >>]
    IN  { Text("prose", Array),
          Text("halffence", Array),
          Text("bare", Array),
          Text("bare", Answer("false", << >>)),
          Text("fenced", Answer("true", << Sym("add", "function"),
                                           Sym("MAX", "MACRO") >>)),
          Text("plainfence", Answer("true", << Sym("add", "struct") >>)),
          Text("bare", Answer("true", << Sym("MAX", "MACRO"),
                                         Sym("counter", "global"),
                                         Sym("Point", "struct"),
                                         Sym("low", "function"),
                                         Sym("LIM", "macro"),
                                         Sym("limit", "global"),
                                         Sym("myint", "TypeDef") >>)),
          Text("bare", Answer("true", << SymNoKind("add"), SymString >>)),
          Text("bare", Answer("true", << Sym("nosuch", "function") >>)),
          Text("bare", Answer("true", << SymNullKind("add") >>)),
          Text("bare", Answer("absent", << Sym("add", "function") >>)) }

\* _ask_llm on the reply txt: the pending symbols, or an exception
_ask_llm(txt) ==
    LET data == json_loads(JsonString(txt))
    IN  CASE data.error = "TypeError" ->
               [raised |-> TRUE, pending |-> << >>]
          [] data.error = "JSONDecodeError" ->
               [raised |-> FALSE, pending |-> << >>]
          [] ~data.value.object ->       \* a list has no attribute get
               [raised |-> TRUE, pending |-> << >>]
          [] data.value.need_more # "true" ->
               [raised |-> FALSE, pending |-> << >>]
          [] OTHER ->
               [raised |-> FALSE,
                pending |->
                    LET out == SelectSeq(data.value.new_symbols,
                                   LAMBDA s : s.dict /\ {"name", "kind"} \subseteq s.keys)
                    IN  SubSeq(out, 1, IF Len(out) < 6 THEN Len(out) ELSE 6)]

\* the entry of the context map for a fetched record
CtxEntry(kind, fetched) ==
    [kind |-> kind, code |-> fetched.code, file |-> fetched.file,
     line |-> fetched.line]

\* after _fetch_symbol gave o for sym: an exception of the resolver goes
\* through, a record is put into the map, through clean_code if there is a
\* normaliser, which the NormalizationAgent does not have
_fetched(st, sym, o) ==
    LET st1 == [st EXCEPT !.w = o.w, !.l = o.l, !.failAt = 0,
                          !.asked = Append(@,
                              [name |-> sym.name, kind |-> sym.kind,
                               fetched |-> IF o.via # "" /\ o.l.pc = "done"
                                           THEN o.l.result ELSE None])]
    IN  IF o.via # "" /\ o.l.pc = "raised" THEN [st1 EXCEPT !.raised = TRUE]
        ELSE IF o.via = "" \/ o.l.result = None THEN st1
        ELSE IF st.normaliser THEN [st1 EXCEPT !.raised = TRUE]
        ELSE [st1 EXCEPT !.ctx = (sym.name :> CtxEntry(sym.kind, o.l.result)) @@ @]

RECURSIVE _fetch_pending_NoSkip(_, _, _, _)
\* mutant: a symbol whose name is in the map already is fetched again
_fetch_pending_NoSkip(st, pending, k, env) ==
    IF k > Len(pending) \/ st.raised THEN st
    ELSE IF ~pending[k].str
    THEN [st EXCEPT !.raised = TRUE]
    ELSE _fetch_pending_NoSkip(
             _fetched(st, pending[k],
                      _fetch_symbol(st.w, st.l,
                                    [env EXCEPT !.failAt = st.failAt],
                                    pending[k].name, pending[k].kind)),
             pending, k + 1, env)

RECURSIVE _fetch_pending(_, _, _, _)
\* the loop over pending from its k-th symbol on
_fetch_pending(st, pending, k, env) ==
    IF k > Len(pending) \/ st.raised THEN st
    ELSE IF pending[k].name \in DOMAIN st.ctx
    THEN _fetch_pending(st, pending, k + 1, env)
    ELSE IF ~pending[k].str             \* None has no attribute lower
    THEN [st EXCEPT !.raised = TRUE]
    ELSE _fetch_pending(
             _fetched(st, pending[k],
                      _fetch_symbol(st.w, st.l,
                                    [env EXCEPT !.failAt = st.failAt],
                                    pending[k].name, pending[k].kind)),
             pending, k + 1, env)

\* ContextAgent(backend=r, normaliser=..., loop_limit=...) is called
ContextAgent_call(r, loop_limit, normaliser) ==
    /\ context.pc = "idle"
    /\ context' = [pc |-> "loop", backend |-> r, loop_limit |-> loop_limit,
                   normaliser |-> normaliser, iteration |-> 0, ctx |-> << >>,
                   ret |-> None,
                   \* ghost: the replies so far, the pending symbols of each,
                   \* and what the resolver was asked for in each iteration
                   replies |-> << >>, pendings |-> << >>, asked |-> << >>]
    /\ UNCHANGED << world, lruSize, warm, loc, outages, clock, returned, last,
                    shadow, agent, detection, validation >>

\* one iteration of the loop: the query, whose reply is txt, and the fetch
\* of the pending symbols; `fails`: the first git call of the first lookup
\* fails.  The loop over pending starts from st0: the warm tier, the
\* resolver, the context map, whether an exception ended the loop, which git
\* call of the next lookup fails, and (ghost) what the resolver was asked for
\* and gave
Iterate(txt, fails) ==
    /\ context.pc = "loop"
    /\ context.iteration < context.loop_limit
    /\ fails => outages < MaxOutages
    /\ \E a \in {_ask_llm(txt)} :
       \E st0 \in {[w |-> warm, l |-> loc[context.backend], ctx |-> context.ctx,
                    normaliser |-> context.normaliser,
                    failAt |-> IF fails THEN 1 ELSE 0, raised |-> FALSE,
                    asked |-> << >>]} :
       \E st \in {_fetch_pending(st0, a.pending, 1, Env(context.backend, 0))} :
           /\ warm' = st.w
           /\ loc' = [loc EXCEPT ![context.backend] = st.l]
           /\ outages' = outages + Raised(st.l)
           /\ context' =
                  [context EXCEPT
                      !.pc = IF a.raised \/ st.raised THEN "raised"
                             ELSE IF a.pending = << >> THEN "returned"
                             ELSE "loop",
                      !.iteration = @ + 1,
                      !.ctx = st.ctx,
                      !.ret = IF ~a.raised /\ ~st.raised /\ a.pending = << >>
                              THEN [context |-> st.ctx, ctx_complete |-> TRUE,
                                    iterations |-> context.iteration + 1]
                              ELSE @,
                      !.replies = Append(@, txt),
                      !.pendings = Append(@, a.pending),
                      !.asked = Append(@, st.asked)]
    /\ UNCHANGED << world, lruSize, clock, returned, last, shadow, agent,
                    detection, validation >>

\* the loop ran loop_limit times
Exhausted ==
    /\ context.pc = "loop"
    /\ context.iteration >= context.loop_limit
    /\ context' = [context EXCEPT
                      !.pc = "returned",
                      !.ret = [context |-> context.ctx, ctx_complete |-> FALSE,
                               iterations |-> context.loop_limit]]
    /\ UNCHANGED << world, lruSize, warm, loc, outages, clock, returned, last,
                    shadow, agent, detection, validation >>

ContextNext ==
    \/ \E r \in Resolvers : \E loop_limit \in 0..MaxLoopLimit :
       \E normaliser \in BOOLEAN : ContextAgent_call(r, loop_limit, normaliser)
    \/ \E txt \in ContextReplies : \E fails \in BOOLEAN : Iterate(txt, fails)
    \/ Exhausted

ContextSpec == Init /\ [][ContextNext]_vars

\* the call has ended, by a return or by an exception
Ended == context.pc \in {"returned", "raised"}

\* C33: a call makes at most loop_limit queries and ends by returning: with
\* ctx_complete true and iterations i at the first iteration i whose query
\* gave no pending symbols, otherwise with ctx_complete false and iterations
\* loop_limit after exactly loop_limit queries; it never ends otherwise.
C33_ReturnsWithinLoopLimit ==
    context.pc # "idle" =>
        /\ Len(context.replies) <= context.loop_limit
        /\ context.pc # "raised"
        /\ context.pc = "returned" =>
             IF context.ret.ctx_complete
             THEN /\ context.ret.iterations \in 1..context.loop_limit
                  /\ Len(context.replies) = context.ret.iterations
                  /\ context.pendings[context.ret.iterations] = << >>
                  /\ \A j \in 1..(context.ret.iterations - 1) :
                         context.pendings[j] # << >>
             ELSE /\ context.ret.iterations = context.loop_limit
                  /\ Len(context.replies) = context.loop_limit
                  /\ \A j \in 1..context.loop_limit :
                         context.pendings[j] # << >>

\* the reply holds a JSON object, on its own or in a fence
WellFormed(txt) ==
    /\ txt.form \in {"bare", "fenced", "plainfence"}
    /\ txt.value.object

\* the object asks for no symbol: need_more is not true, or no item of
\* new_symbols is an object with name and kind
AsksNothing(value) ==
    \/ value.need_more # "true"
    \/ \A i \in 1..Len(value.new_symbols) :
           ~(value.new_symbols[i].dict
             /\ {"name", "kind"} \subseteq value.new_symbols[i].keys)

\* C34: ctx_complete is true only if the reply of the returning iteration
\* was a well-formed answer that asks for no more context, never on a
\* reply that could not be understood.
C34_CompleteOnlyIfUnderstood ==
    (context.pc = "returned" /\ context.ret.ctx_complete) =>
        /\ WellFormed(context.replies[Len(context.replies)])
        /\ AsksNothing(context.replies[Len(context.replies)].value)

Obj(fields) == [object |-> TRUE, fields |-> fields]

List(items) == [list |-> TRUE, items |-> items]

\* what the LLM replies to the Detection Agent and to the Validation Agent.
\* The line of a statement is as the reply gives it: a number, a string of
\* digits, or another string (n < 0); the statements are complete, without
\* reason, without statement, with the line as a string of digits, with a
\* line that is no number
VerdictReplies ==
    LET NotObj == [object |-> FALSE, fields |-> << >>]
        NotList == [list |-> FALSE, items |-> << >>]
        Number(n) == [json |-> "number", n |-> n]
        Digits(n) == [json |-> "string", n |-> n]
        Word == [json |-> "string", n |-> -1]
        Stmt == [line |-> Number(17), statement |-> "strcpy(buf, src);",
                 reason |-> "unsafe copy"]
        StmtNoReason == [line |-> Number(3), statement |-> "gets(buf);"]
        StmtNoText == [line |-> Number(5), reason |-> "overflow"]
        StmtDigits == [line |-> Digits(17), statement |-> "strcpy(buf, src);",
                       reason |-> "unsafe copy"]
        StmtWord == [line |-> Word, statement |-> "free(p);",
                     reason |-> "double free"]
    IN  { Text("prose", NotObj),
          Text("halffence", NotObj),
          Text("bare", NotObj),
          Text("bare", Obj([is_vulnerable |-> TRUE,
                            vuln_statements |-> List(<< Stmt >>)])),
          Text("fenced", Obj([agree |-> FALSE, is_vulnerable |-> FALSE,
                              vuln_statements |-> List(<< >>)])),
          Text("bare", Obj([agree |-> TRUE, is_vulnerable |-> TRUE,
                            vuln_statements |->
                                List(<< StmtDigits, StmtNoText, StmtNoReason >>)])),
          Text("plainfence", Obj([agree |-> TRUE, is_vulnerable |-> TRUE])),
          Text("bare", Obj([agree |-> FALSE, is_vulnerable |-> TRUE,
                            vuln_statements |-> NotList])),
          Text("bare", Obj([agree |-> FALSE, is_vulnerable |-> TRUE,
                            vuln_statements |-> List(<< StmtWord >>)])) }

\* the entries of vuln_statements that have line and statement, normalised
Normd(items) ==
    LET kept == SelectSeq(items,
                    LAMBDA e : {"line", "statement"} \subseteq DOMAIN e)
    IN  [i \in 1..Len(kept) |->
            [line |-> kept[i].line.n, statement |-> kept[i].statement,
             reason |-> IF "reason" \in DOMAIN kept[i]
                        THEN kept[i].reason ELSE ""]]

\* DetectionAgent._parse: [ok, data]; ok is false when it raises
DetectionAgent_parse(raw) ==
    LET data == json_loads(JsonString(raw))
        Raise == [ok |-> FALSE, data |-> << >>]
    IN  CASE data.error # "" -> Raise
          [] ~data.value.object -> Raise
          [] ~({"is_vulnerable", "vuln_statements"}
                   \subseteq DOMAIN data.value.fields) -> Raise
          [] ~data.value.fields.vuln_statements.list -> Raise
          [] \E i \in 1..Len(data.value.fields.vuln_statements.items) :
                 LET e == data.value.fields.vuln_statements.items[i]
                 IN  /\ {"line", "statement"} \subseteq DOMAIN e
                     \* int() of a string that is no number
                     /\ e.line.json = "string" /\ e.line.n < 0 -> Raise
          [] OTHER ->
               [ok |-> TRUE,
                data |-> [data.value.fields EXCEPT
                             !.vuln_statements = List(Normd(@.items))]]

\* the verdict returned when no reply was parsed
DefaultVerdict == [is_vulnerable |-> FALSE, vuln_statements |-> List(<< >>)]

\* DetectionAgent.__call__ up to the loop: the first reply is raw
DetectionAgent_call(raw) ==
    /\ detection.pc = "idle"
    /\ detection' = [pc |-> "loop", raw |-> raw, retry |-> 1, ret |-> None,
                     \* ghost: the replies so far
                     raws |-> << raw >>]
    /\ UNCHANGED << world, lruSize, warm, loc, outages, clock, returned, last,
                    shadow, agent, context, validation >>

\* the body of the loop, when _parse returns
DetectionAgent_try ==
    /\ detection.pc = "loop"
    /\ detection.retry > 0
    /\ DetectionAgent_parse(detection.raw).ok
    /\ detection' = [detection EXCEPT
                        !.pc = "returned",
                        !.ret = DetectionAgent_parse(detection.raw).data]
    /\ UNCHANGED << world, lruSize, warm, loc, outages, clock, returned, last,
                    shadow, agent, context, validation >>

\* the body of the loop, when _parse raises: the LLM is invoked again and
\* replies raw
DetectionAgent_except(raw) ==
    /\ detection.pc = "loop"
    /\ detection.retry > 0
    /\ ~DetectionAgent_parse(detection.raw).ok
    /\ detection' = [detection EXCEPT
                        !.retry = @ - 1, !.raw = raw, !.raws = Append(@, raw)]
    /\ UNCHANGED << world, lruSize, warm, loc, outages, clock, returned, last,
                    shadow, agent, context, validation >>

\* the end of the loop
DetectionAgent_default ==
    /\ detection.pc = "loop"
    /\ detection.retry <= 0
    /\ detection' = [detection EXCEPT !.pc = "returned", !.ret = DefaultVerdict]
    /\ UNCHANGED << world, lruSize, warm, loc, outages, clock, returned, last,
                    shadow, agent, context, validation >>

\* ValidationAgent._parse: [raised, data]; data is None for a reply that
\* is not JSON
ValidationAgent_parse(raw) ==
    LET data == json_loads(JsonString(raw))
        Raise == [raised |-> TRUE, data |-> None]
    IN  CASE data.error = "TypeError" -> Raise
          [] data.error = "JSONDecodeError" -> [raised |-> FALSE, data |-> None]
          [] ~data.value.object -> Raise
          [] ~({"agree", "is_vulnerable", "vuln_statements"}
                   \subseteq DOMAIN data.value.fields) -> Raise
          [] OTHER ->
               [raised |-> FALSE,
                data |-> IF data.value.fields.vuln_statements.list
                         THEN data.value.fields
                         ELSE [data.value.fields EXCEPT
                                  !.vuln_statements = List(<< >>)]]

\* output["agree"] = True on a dict
WithAgree(output) == ("agree" :> TRUE) @@ output

\* ValidationAgent.__call__ on what the Detection Agent returned; the
\* LLM's reply is raw.  After _parse gave p: without data the output is the
\* caller's detection_out, the same dict, with agree set on it
ValidationAgent_call(raw) ==
    /\ validation.pc = "idle"
    /\ detection.pc = "returned"
    /\ \E p \in {ValidationAgent_parse(raw)} :
           validation' =
               [pc |-> IF p.raised THEN "raised" ELSE "returned",
                raw |-> raw,
                \* the caller's dict after the call, and (ghost) before it
                detection_out |-> IF ~p.raised /\ p.data = None
                                  THEN WithAgree(detection.ret)
                                  ELSE detection.ret,
                given |-> detection.ret,
                ret |-> IF p.raised THEN None
                        ELSE IF p.data = None THEN WithAgree(detection.ret)
                        ELSE p.data]
    /\ UNCHANGED << world, lruSize, warm, loc, outages, clock, returned, last,
                    shadow, agent, context, detection >>

VerdictNext ==
    \/ \E raw \in VerdictReplies : DetectionAgent_call(raw)
    \/ DetectionAgent_try
    \/ \E raw \in VerdictReplies : DetectionAgent_except(raw)
    \/ DetectionAgent_default
    \/ \E raw \in VerdictReplies : ValidationAgent_call(raw)

VerdictSpec == Init /\ [][VerdictNext]_vars

\* C36: the Detection Agent makes at most two LLM calls and always returns:
\* the verdict of the first reply when it is valid, else the verdict of the
\* second reply when that is valid, and the default verdict only when both
\* replies are invalid.
C36_SecondReplyCounts ==
    /\ detection.pc # "idle" => Len(detection.raws) <= 2
    /\ detection.pc = "returned" =>
         IF DetectionAgent_parse(detection.raws[1]).ok
         THEN /\ Len(detection.raws) = 1
              /\ detection.ret = DetectionAgent_parse(detection.raws[1]).data
         ELSE /\ Len(detection.raws) = 2
              /\ detection.ret =
                     IF DetectionAgent_parse(detection.raws[2]).ok
                     THEN DetectionAgent_parse(detection.raws[2]).data
                     ELSE DefaultVerdict

\* the reply is not JSON: prose, with or without a ``` in it
NotJson(raw) == json_loads(JsonString(raw)).error # ""

\* C37: for a reply that is not valid JSON the Validation Agent returns the
\* Detection Agent's verdict with agree true and leaves the caller's
\* detection_out as it was; every output has the keys agree, is_vulnerable
\* and vuln_statements.
C37_FallbackLeavesVerdictAlone ==
    validation.pc # "idle" =>
        /\ NotJson(validation.raw) =>
             /\ validation.pc = "returned"
             /\ validation.ret.is_vulnerable = validation.given.is_vulnerable
             /\ validation.ret.vuln_statements = validation.given.vuln_statements
             /\ validation.ret.agree = TRUE
             /\ validation.detection_out = validation.given
        /\ validation.pc = "returned" =>
             {"agree", "is_vulnerable", "vuln_statements"}
                 \subseteq DOMAIN validation.ret

=============================================================================
